---- MODULE Spec2Model ----
(***************************************************************************)
(* The autonomous orchestrator of sources/orchestrator.py: the plan data   *)
(* model (TaskStep, ExecutionPlan), the dependency-aware scheduler, the    *)
(* retry policy of reflect / mark_step_failed, plan revision, and the      *)
(* control loop run_loop.                                                  *)
(*                                                                         *)
(* Spec      one call of run_loop on an arbitrary initial task list.       *)
(* FairSpec  run_loop with weak fairness of the loop (every handler call   *)
(*           returns and the single-threaded loop keeps stepping).        *)
(* PlanSpec  the plan mutators called directly: create_plan_from_tasks     *)
(*           followed by mark_step_done / mark_step_failed / revise_plan.  *)
(* ReviseSpec   revise_plan called for one failed step.                    *)
(* ResolveSpec  run_loop on an orchestrator built with any registry, for   *)
(*           steps of any agent type.                                      *)
(* StopSpec  run_loop with the /stop endpoint of api.py called meanwhile.  *)
(* ApiSpec   the /query and /stop endpoints of api.py under every          *)
(*           interleaving of their requests.                               *)
(* ObsSpec   run_loop with an observer whose calls may fail.               *)
(* SandboxSpec  one call of Sandbox.run of sources/sandbox.py on a new     *)
(*           Sandbox, for every language and snippet.                      *)
(* HistorySpec  run and clear_history called one after the other on one    *)
(*           Sandbox.                                                      *)
(***************************************************************************)
EXTENDS Integers, Sequences, FiniteSets, TLC

\* ---------------------------------------------------------------- bounds
\* SandboxSpec: largest number of lines of a snippet.
MaxLines == 3
\* HistorySpec: largest number of run calls made on one Sandbox.
MaxRuns == 2
\* ApiSpec: largest number of /query requests made.
MaxQueries == 3
\* Largest number of tasks handed to run_loop / create_plan_from_tasks.
MaxSteps == 2
\* Largest number of entries in one task's 'need' list.
MaxDeps == 2
\* PlanSpec: largest task list, largest plan length revise_plan may grow the
\* plan to, and largest number of mark_step_done / mark_step_failed calls.
MaxPlanInit == 2
MaxPlanLen == 3
MaxMarks == 2

\* ------------------------------------------------------ program constants
\* TaskStep.max_attempts default.
DefaultMaxAttempts == 3
\* max_attempts of a recovery step (revise_plan).
RecoveryMaxAttempts == 2
\* max_iterations = len(plan.steps) * 4.
IterationFactor == 4
\* revise_plan is called only while consecutive_failures < 3.
FailureThreshold == 3

DeadlockError == "Dependency deadlock: langkah yang dibutuhkan gagal"

VARIABLES
    steps,                 \* plan.steps: the ordered list of TaskStep records
    reflection_log,        \* plan.reflection_log, one entry per reflect call
    pc,                    \* position of run_loop: "loop", "exec", "done", "raised" (left by an exception); "api", "revise", "revised" elsewhere
    cur,                   \* index in steps of the step handed to execute_step (0: none)
    iteration,             \* run_loop's iteration counter
    max_iterations,        \* run_loop's cap, computed once before the loop
    consecutive_failures,  \* run_loop's consecutive_failures
    n0,                    \* len(agent_tasks): number of steps at plan creation
    trace,                 \* history: <<step id, success>> of every handler call that ended
    summary,               \* <<completed, total>> computed after the loop (lines 495-496)
    marks,                 \* PlanSpec only: number of mark_step_* calls made
    last_outcome,          \* history: what the handler call that ended last did
    stop_requested,        \* the stop flag the /stop endpoint asks the current agent to set
    obs_failed,            \* history: some observer call has failed so far
    execution_history,     \* Sandbox.execution_history: the (language, result) pairs
    sbx_pc,                \* position of a Sandbox.run call: "idle", "called", "spawn" (about to start a child), "child" (awaiting the child), "raised" (left by an exception)
    sbx_call,              \* the run call in progress: language, code, attempt
    sbx_result,            \* the SandboxResult the run call that ended last returned
    temp_files,            \* number of temp source files of the sandbox now in work_dir
    files_written,         \* history: number of temp source files the last run call has written
    children,              \* history: number of child processes the last run call has spawned
    pip_installs,          \* history: number of pip installs the last run call has attempted
    group_live,            \* number of live processes in the process group of the child spawned last
    last_child,            \* history: what the child that ended last did (exit, stdout, stderr, helpers)
    runs,                  \* history: number of run calls made on the Sandbox
    agents,                \* orchestrator.agents: the registered keys, in the order of the dict
    agent_key,             \* execute_step's agent_key for the step being executed ("": none)
    required_infos,        \* run_loop's required_infos for the step being executed: str(id) -> result
    is_generating,         \* api.py's global is_generating
    run_pc,                \* per /query request: "none", "rejected" (429), "running" (inside run_loop), "returned"
    self_plan              \* the request whose run_loop created orchestrator.plan (0: None)

\* The variables of the sandbox.
sbx_vars == <<execution_history, sbx_pc, sbx_call, sbx_result, temp_files,
              files_written, children, pip_installs, group_live, last_child,
              runs>>

\* What execute_step works with: the registry and the locals of one step.
exec_vars == <<agents, agent_key, required_infos>>

\* The variables of the /query and /stop endpoints.
api_vars == <<is_generating, run_pc, self_plan>>

\* The variables of the orchestrator and the api other than obs_failed.
loop_vars == <<steps, reflection_log, pc, cur, iteration, max_iterations,
               consecutive_failures, n0, trace, summary, marks, last_outcome,
               stop_requested, exec_vars, api_vars>>

vars == <<loop_vars, obs_failed, sbx_vars>>

\* ------------------------------------------------------------- utilities
Min(S) == CHOOSE x \in S : \A y \in S : x <= y

Digits == <<"0", "1", "2", "3", "4", "5", "6", "7", "8", "9">>

\* Python's str() of a non-negative int: its decimal digits.
RECURSIVE Str(_)
Str(n) == IF n < 10 THEN Digits[n + 1]
          ELSE Str(n \div 10) \o Digits[(n % 10) + 1]

\* Indices of a sequence satisfying a test, and counting.
Indices(st) == 1..Len(st)

CountStatus(st, s) == Cardinality({i \in Indices(st) : st[i].status = s})

\* ------------------------------------------------------------ data model
Statuses == {"pending", "running", "completed", "failed"}

\* TaskStep(...) with the dataclass defaults for the fields not given.
TaskStep(id, agent, maxatt, deps) ==
    [id |-> id, agent_type |-> agent, status |-> "pending", result |-> "",
     error |-> "", attempts |-> 0, max_attempts |-> maxatt, dependencies |-> deps]

\* ------------------------------------------------------- ExecutionPlan
\* next((s for s in self.steps if str(s.id) == str(dep_id)), None): the index
\* of the first step whose id prints as dep (0: None).
DepStep(st, dep) ==
    LET I == {i \in Indices(st) : Str(st[i].id) = dep}
    IN  IF I = {} THEN 0 ELSE Min(I)

\* Mutant: dependencies are not looked at.
MutDepsMetAlways(st, i) == TRUE

\* Mutant: a failed dependency counts as met, like a completed one.
MutDepsMetFinished(st, i) ==
    \A dep \in st[i].dependencies :
        \A j \in 1..Len(st) :
            Str(st[j].id) = dep => st[j].status \in {"completed", "failed"}

\* Mutant: a dependency is met only by a completed step of the plan, so an id
\* that matches no step blocks.
MutDepsMetStrict(st, i) ==
    \A dep \in st[i].dependencies :
        \E j \in 1..Len(st) : Str(st[j].id) = dep /\ st[j].status = "completed"

DepsMet(st, i) ==
    \A dep \in st[i].dependencies :
        LET j == DepStep(st, dep)
        IN  ~(j # 0 /\ st[j].status # "completed")

\* Mutant: among the runnable steps the one with the fewest attempts goes
\* first, so a step that failed waits for the steps not tried yet.
MutNextStepFewestAttempts(st) ==
    LET E == {i \in 1..Len(st) : st[i].status = "pending" /\ DepsMet(st, i)}
        F == {i \in E : \A j \in E : st[i].attempts <= st[j].attempts}
    IN  IF E = {} THEN 0 ELSE Min(F)

\* Mutant: every step that is not completed is a candidate, failed ones too.
MutNextStepNotCompleted(st) ==
    LET E == {i \in 1..Len(st) : st[i].status \in {"pending", "failed"}
                                   /\ DepsMet(st, i)}
    IN  IF E = {} THEN 0 ELSE Min(E)

\* Mutant: the status of a step is not looked at.
MutNextStepAnyStatus(st) ==
    LET E == {i \in 1..Len(st) : DepsMet(st, i)}
    IN  IF E = {} THEN 0 ELSE Min(E)

\* Index of the step get_next_step returns (0: None).
get_next_step(st) ==
    LET E == {i \in Indices(st) : st[i].status = "pending" /\ DepsMet(st, i)}
    IN  IF E = {} THEN 0 ELSE Min(E)

\* Index of the first step with this id (0: none), the target of the mutators.
StepById(st, id) ==
    LET I == {i \in Indices(st) : st[i].id = id}
    IN  IF I = {} THEN 0 ELSE Min(I)

mark_step_done(st, id, result) ==
    LET i == StepById(st, id)
    IN  IF i = 0 THEN st
        ELSE [st EXCEPT ![i].status = "completed", ![i].result = result]

\* Mutant: off by one, a step is failed only after max_attempts + 1 failures.
MutFailedStatusOffByOne(attempts, maxatt) ==
    IF attempts > maxatt THEN "failed" ELSE "pending"

FailedStatus(attempts, maxatt) ==
    IF attempts >= maxatt THEN "failed" ELSE "pending"

mark_step_failed(st, id, error) ==
    LET i == StepById(st, id)
    IN  IF i = 0 THEN st
        ELSE [st EXCEPT ![i].attempts = @ + 1,
                        ![i].status = FailedStatus(st[i].attempts + 1, st[i].max_attempts),
                        ![i].error = error]

is_complete(st) == \A i \in Indices(st) : st[i].status \in {"completed", "failed"}

\* --------------------------------------------------------------- strings
\* The failure texts the model draws from.  Matching in revise_plan is done on
\* error.lower(); Lower gives the lower-cased text of each.
ErrorTexts ==
    {"boom", "Error: boom", "No module named 'yaml'", "ImportError: bad",
     "Permission denied", "ACCESS DENIED", "SyntaxError: invalid syntax",
     "Timeout", "Connection refused", "Permission denied on import"}

Lower(e) ==
    CASE e = "boom" -> "boom"
      [] e = "Error: boom" -> "error: boom"
      [] e = "No module named 'yaml'" -> "no module named 'yaml'"
      [] e = "ImportError: bad" -> "importerror: bad"
      [] e = "Permission denied" -> "permission denied"
      [] e = "ACCESS DENIED" -> "access denied"
      [] e = "SyntaxError: invalid syntax" -> "syntaxerror: invalid syntax"
      [] e = "Timeout" -> "timeout"
      [] e = "Connection refused" -> "connection refused"
      [] e = "Permission denied on import" -> "permission denied on import"
      [] e = "coder" -> "coder"
      [] e = "Coder" -> "coder"
      [] e = "file" -> "file"
      [] e = "File" -> "file"
      [] e = "web" -> "web"
      [] e = "casual" -> "casual"
      [] e = "planner" -> "planner"
      [] e = "Planner" -> "planner"
      [] e = "FILES" -> "files"
      [] e = "Web" -> "web"
      [] OTHER -> e

\* pat in s, for the patterns revise_plan looks for, on lower-cased text.
Contains(s, pat) ==
    CASE pat = "no module named" -> s \in {"no module named 'yaml'"}
      [] pat = "import" -> s \in {"importerror: bad", "permission denied on import"}
      [] pat = "permission" -> s \in {"permission denied", "permission denied on import"}
      [] pat = "access denied" -> s \in {"access denied"}
      [] pat = "syntax" -> s \in {"syntaxerror: invalid syntax"}
      [] pat = "syntaxerror" -> s \in {"syntaxerror: invalid syntax"}
      [] pat = "timeout" -> s \in {"timeout"}
      [] pat = "connection" -> s \in {"connection refused"}
      [] OTHER -> FALSE

\* ---------------------------------------------------------- orchestrator
\* The 'need' of one task: a string or a list of strings (create_plan_from_tasks
\* wraps a non-empty string into a one-element list and turns "" into []).
NeedDeps(need) ==
    IF need.isstr
    THEN (IF need.s # "" THEN {need.s} ELSE {})
    ELSE need.l

RECURSIVE PlanFromTasks(_, _)
PlanFromTasks(tasks, i) ==
    IF i > Len(tasks) THEN <<>>
    ELSE <<TaskStep(i, tasks[i].agent, DefaultMaxAttempts, NeedDeps(tasks[i].need))>>
         \o PlanFromTasks(tasks, i + 1)

\* plan.steps after create_plan_from_tasks(goal, agent_tasks): ids are i + 1
\* for the enumerate index i, i.e. 1..len(agent_tasks).
create_plan_from_tasks(tasks) == PlanFromTasks(tasks, 1)

\* Mutant: a success also clears the error a failed attempt left.
MutReflectClearsError(s, result, success) ==
    IF success
    THEN [s EXCEPT !.status = "completed", !.result = result, !.error = ""]
    ELSE [s EXCEPT !.attempts = @ + 1,
                   !.status = IF s.attempts + 1 >= s.max_attempts
                              THEN "failed" ELSE "pending",
                   !.error = result]

\* Mutant: a failure does not count an attempt.
MutReflectNoCount(s, result, success) ==
    IF success
    THEN [s EXCEPT !.status = "completed", !.result = result]
    ELSE [s EXCEPT !.status = "pending", !.error = result]

\* Mutant: a failure that leaves attempts to spare does not put the step back
\* to pending.
MutReflectKeepsRunning(s, result, success) ==
    IF success
    THEN [s EXCEPT !.status = "completed", !.result = result]
    ELSE [s EXCEPT !.attempts = @ + 1,
                   !.status = IF s.attempts + 1 >= s.max_attempts
                              THEN "failed" ELSE "running",
                   !.error = result]

\* reflect(step, result, success): the step afterwards.
ReflectStep(s, result, success) ==
    IF success
    THEN [s EXCEPT !.status = "completed", !.result = result]
    ELSE [s EXCEPT !.attempts = @ + 1,
                   !.status = FailedStatus(s.attempts + 1, s.max_attempts),
                   !.error = result]

\* The kind of line reflect appends to the reflection log.
ReflectionOf(s, success) ==
    IF success THEN <<s.id, "berhasil">>
    ELSE IF s.attempts + 1 >= s.max_attempts THEN <<s.id, "gagal">>
    ELSE <<s.id, "akan dicoba lagi">>

\* alternative_agents.get(agent_type.lower(), agent_type)
AlternativeAgent(agent) ==
    CASE Lower(agent) = "coder" -> "file"
      [] Lower(agent) = "file" -> "coder"
      [] Lower(agent) = "web" -> "casual"
      [] Lower(agent) = "casual" -> "coder"
      [] OTHER -> agent

\* Mutant: the permission row is looked at before the import row.
MutRecoveryAgentPermissionFirst(s) ==
    LET error_lower == Lower(s.error)
    IN  IF Contains(error_lower, "permission") \/ Contains(error_lower, "access denied")
        THEN "file"
        ELSE IF Contains(error_lower, "no module named") \/ Contains(error_lower, "import")
        THEN Lower(s.agent_type)
        ELSE IF Contains(error_lower, "syntax") \/ Contains(error_lower, "syntaxerror")
        THEN "coder"
        ELSE IF Contains(error_lower, "timeout") \/ Contains(error_lower, "connection")
        THEN "web"
        ELSE AlternativeAgent(s.agent_type)

\* The capability revise_plan gives the recovery step.
RecoveryAgent(s) ==
    LET error_lower == Lower(s.error)
    IN  IF Contains(error_lower, "no module named") \/ Contains(error_lower, "import")
        THEN Lower(s.agent_type)
        ELSE IF Contains(error_lower, "permission") \/ Contains(error_lower, "access denied")
        THEN "file"
        ELSE IF Contains(error_lower, "syntax") \/ Contains(error_lower, "syntaxerror")
        THEN "coder"
        ELSE IF Contains(error_lower, "timeout") \/ Contains(error_lower, "connection")
        THEN "web"
        ELSE AlternativeAgent(s.agent_type)

\* Mutant: the recovery step takes the id of the last step.
MutRecoveryIdLast(st) == Len(st)

\* id=len(self.plan.steps) + 1
RecoveryId(st) == Len(st) + 1

\* Mutant: the recovery step does not inherit the failed step's dependencies.
MutRevisePlanNoDeps(st, s) ==
    Append(st, TaskStep(RecoveryId(st), RecoveryAgent(s), RecoveryMaxAttempts, {}))

\* plan.steps after revise_plan(failed_step).
revise_plan(st, s) ==
    Append(st, TaskStep(RecoveryId(st), RecoveryAgent(s), RecoveryMaxAttempts,
                        s.dependencies))

\* Mutant: the cap is twice the number of steps, less than the attempts a
\* step may take.
MutMaxIterationsTwice(st) == Len(st) * 2

\* Mutant: the cap is one iteration too large.
MutMaxIterationsPlusOne(st) == Len(st) * IterationFactor + 1

\* max_iterations = len(plan.steps) * 4
MaxIterations(st) == Len(st) * IterationFactor

\* The while condition of run_loop.
LoopGuard(st, it, maxit) == ~is_complete(st) /\ it < maxit

\* Mutant: the deadlock branch leaves the pending steps as they are.
MutFailPendingNone(st) == st

\* The steps the deadlock branch leaves: every pending step forced to failed.
FailPending(st) ==
    [i \in Indices(st) |->
        IF st[i].status = "pending"
        THEN [st[i] EXCEPT !.status = "failed", !.error = DeadlockError]
        ELSE st[i]]

\* The counts of get_execution_summary().
get_execution_summary(st) ==
    [total_steps |-> Len(st),
     completed |-> CountStatus(st, "completed"),
     failed |-> CountStatus(st, "failed"),
     skipped |-> CountStatus(st, "pending")]

\* completed and total of lines 495-496.
Summary(st) == <<CountStatus(st, "completed"), Len(st)>>

\* ------------------------------------------------------------ run_loop
\* Inputs of one run: the task list and what each handler call does.
InitAgents == {"coder", "file"}

DepStrs == {Str(i) : i \in 1..(MaxSteps + 1)}

NeedValues ==
    {[isstr |-> TRUE, s |-> x, l |-> {}] : x \in DepStrs \cup {""}}
    \cup {[isstr |-> FALSE, s |-> "", l |-> d] :
            d \in {e \in SUBSET DepStrs : Cardinality(e) <= MaxDeps}}

TaskInfos == [agent : InitAgents, need : NeedValues]

TaskLists == UNION {[1..n -> TaskInfos] : n \in 0..MaxSteps}

\* What agent.process does: it returns an answer with get_success true or
\* false, or it raises.
HandlerAnswers == {"ok"}

HandlerErrors == {"boom"}

Outcomes ==
    {[kind |-> "ok", text |-> a] : a \in HandlerAnswers}
    \cup {[kind |-> k, text |-> e] : k \in {"fail", "raise"}, e \in HandlerErrors}

\* The (answer, success) pair execute_step returns for an outcome.
StepResult(out) == IF out.kind = "raise" THEN "Error: " \o out.text ELSE out.text

StepSuccess(out) == out.kind = "ok"

\* No handler call has ended yet.
NoOutcome == [kind |-> "none", text |-> ""]

\* Mutant: the handler's exception is not caught in execute_step.
MutCaughtNever(out) == FALSE

\* except Exception as e (execute_step): what agent.process raises is caught
\* there and turned into the pair ("Error: " + str(e), False).
CaughtInExecuteStep(out) == out.kind = "raise"

\* Mutant: a failing observer call is not swallowed.
MutObserverEscapesAlways(f) == f

\* try: await ws_manager.send_...(...) / except Exception: pass, around every
\* observer call: whether a failure f of the call gets out of its wrapper.
ObserverEscapes(f) == FALSE

\* self.agents of the planner agent, the only registry an orchestrator is
\* built with: the keys in the order of the dict.
PlannerAgents == <<"coder", "file", "web", "casual">>

\* agent_key not in self.agents, negated.
Registered(key, registry) == \E k \in 1..Len(registry) : registry[k] = key

\* key.startswith(prefix)
startswith(key, prefix) ==
    Len(prefix) <= Len(key) /\ SubSeq(key, 1, Len(prefix)) = prefix

\* text[:n]
Truncate(text, n) == IF Len(text) <= n THEN text ELSE SubSeq(text, 1, n)

\* agent_key[:3]
PrefixLen == 3

\* Mutant: the prefix match is skipped, what has no exact key goes to 'coder'.
MutResolveNoPrefix(agent_type, registry) ==
    IF Registered(Lower(agent_type), registry) THEN Lower(agent_type) ELSE "coder"

\* The key execute_step looks the handler up with: the lower-cased agent type
\* if registered, else the first key that starts with its first three
\* characters, else 'coder'.
ResolveAgent(agent_type, registry) ==
    LET key == Lower(agent_type)
        M == {k \in 1..Len(registry) :
                startswith(registry[k], Truncate(key, PrefixLen))}
    IN  IF Registered(key, registry) THEN key
        ELSE IF M # {} THEN registry[Min(M)]
        ELSE "coder"

\* The first characters kept of a dependency's result and of the result of
\* an earlier step.
DepResultCap == 500

PrevResultCap == 300

\* The dict built from the steps with index in J: str(id) -> result[:n] (a
\* later step with the same id overwrites an earlier one).
InfosOf(st, J, n) ==
    [k \in {Str(st[j].id) : j \in J} |->
        LET last == CHOOSE j \in J : /\ Str(st[j].id) = k
                                     /\ \A j2 \in J : Str(st[j2].id) = k => j2 <= j
        IN  Truncate(st[last].result, n)]

\* Mutant: no fallback, only completed declared dependencies are handed over.
MutRequiredInfosDepsOnly(st, i) ==
    InfosOf(st, {j \in Indices(st) : /\ Str(st[j].id) \in st[i].dependencies
                                      /\ st[j].status = "completed"},
            DepResultCap)

\* required_infos of run_loop for the step with index i: the results of the
\* completed steps among its dependencies, or if there is none, of every
\* completed step with a smaller id.
RequiredInfos(st, i) ==
    LET D == {j \in Indices(st) : /\ Str(st[j].id) \in st[i].dependencies
                                  /\ st[j].status = "completed"}
        P == {j \in Indices(st) : /\ st[j].id < st[i].id
                                  /\ st[j].status = "completed"}
    IN  IF D # {} THEN InfosOf(st, D, DepResultCap)
        ELSE InfosOf(st, P, PrevResultCap)

\* No step is being executed.
NoStep == agent_key = "" /\ required_infos = <<>>

\* The api before any request: no query in progress, no plan.
ApiNew ==
    /\ is_generating = FALSE
    /\ run_pc = [q \in 1..MaxQueries |-> "none"]
    /\ self_plan = 0

\* Sandbox(): an empty history, no call in progress, nothing written or spawned.
NoCall == [language |-> "", code |-> <<>>, attempt |-> 0]

\* SandboxResult(...) with the dataclass defaults for the fields not given.
SandboxResult(success, output, errors, execution_time, language) ==
    [success |-> success, output |-> output, errors |-> errors,
     execution_time |-> execution_time, language |-> language,
     timed_out |-> FALSE, blocked |-> FALSE, blocked_reason |-> "",
     truncated |-> FALSE]

\* No run call has returned yet.
NoResult == SandboxResult(FALSE, "", "", 0, "")

\* No child has ended yet.
NoChild == [kind |-> "", stdout |-> "", stderr |-> "", helpers |-> 0]

SandboxNew ==
    /\ execution_history = <<>>
    /\ sbx_pc = "idle"
    /\ sbx_call = NoCall
    /\ sbx_result = NoResult
    /\ temp_files = 0
    /\ files_written = 0
    /\ children = 0
    /\ pip_installs = 0
    /\ group_live = 0
    /\ last_child = NoChild
    /\ runs = 0

\* The state run_loop is in when it reaches its while loop for a task list
\* (obs_failed apart).
RunLoopEntryWith(tasks, registry) ==
    /\ steps = create_plan_from_tasks(tasks)
    /\ n0 = Len(tasks)
    /\ max_iterations = MaxIterations(create_plan_from_tasks(tasks))
    /\ reflection_log = <<>>
    /\ pc = "loop"
    /\ cur = 0
    /\ iteration = 0
    /\ consecutive_failures = 0
    /\ trace = <<>>
    /\ summary = <<0, 0>>
    /\ marks = 0
    /\ last_outcome = NoOutcome
    /\ stop_requested = FALSE
    /\ agents = registry
    /\ NoStep
    /\ ApiNew
    /\ SandboxNew

RunLoopEntry(tasks) == RunLoopEntryWith(tasks, PlannerAgents)

Init == \E tasks \in TaskLists : RunLoopEntry(tasks) /\ obs_failed = FALSE

\* One pass of the loop head that finds a runnable step: iteration += 1,
\* required_infos, and execute_step up to the point where the handler is
\* awaited.  self.agents[agent_key] of a key that is not registered raises
\* KeyError outside the try of execute_step, which leaves run_loop ("raised").
StartStepLoop ==
    /\ pc = "loop"
    /\ LoopGuard(steps, iteration, max_iterations)
    /\ get_next_step(steps) # 0
    /\ iteration' = iteration + 1
    /\ cur' = get_next_step(steps)
    /\ required_infos' = RequiredInfos(steps, cur')
    /\ steps' = [steps EXCEPT ![cur'].status = "running"]
    /\ agent_key' = ResolveAgent(steps[cur'].agent_type, agents)
    /\ pc' = IF Registered(agent_key', agents) THEN "exec" ELSE "raised"
    /\ UNCHANGED <<reflection_log, max_iterations, consecutive_failures, n0,
                   trace, summary, marks, last_outcome, stop_requested, agents,
                   api_vars, sbx_vars>>

StartStep == StartStepLoop /\ UNCHANGED obs_failed

\* consecutive_failures after an outcome.
NextFailures(cf, success) == IF success THEN 0 ELSE cf + 1

\* Mutant: the threshold itself still allows a revision.
MutShouldReviseAtThreshold(s, success, cf) ==
    ~success /\ s.status = "failed" /\ cf <= FailureThreshold

\* Mutant: no throttle, every terminal failure is followed by a revision.
MutShouldReviseNoThrottle(s, success, cf) ==
    ~success /\ s.status = "failed"

\* Whether run_loop calls revise_plan after reflect.
ShouldRevise(s, success, cf) ==
    ~success /\ s.status = "failed" /\ cf < FailureThreshold

\* The handler returns (or raises): reflect, the failure counter, revision,
\* and back to the loop head.  An exception that execute_step does not catch
\* leaves run_loop at once ("raised"), the step still running.
FinishStepLoop ==
    /\ pc = "exec"
    /\ \E out \in Outcomes :
        LET success == StepSuccess(out)
            result == StepResult(out)
            reflected == [steps EXCEPT ![cur] = ReflectStep(steps[cur], result, success)]
            cf == NextFailures(consecutive_failures, success)
        IN  /\ last_outcome' = out
            /\ IF out.kind = "raise" /\ ~CaughtInExecuteStep(out)
               THEN /\ pc' = "raised"
                    /\ UNCHANGED <<steps, reflection_log, consecutive_failures,
                                   trace, cur, agent_key, required_infos>>
               ELSE /\ steps' = IF ShouldRevise(reflected[cur], success, cf)
                                THEN revise_plan(reflected, reflected[cur])
                                ELSE reflected
                    /\ reflection_log' = Append(reflection_log, ReflectionOf(steps[cur], success))
                    /\ consecutive_failures' = cf
                    /\ trace' = Append(trace, <<steps[cur].id, success>>)
                    /\ pc' = "loop"
                    /\ cur' = 0
                    /\ agent_key' = ""
                    /\ required_infos' = <<>>
    /\ UNCHANGED <<iteration, max_iterations, n0, summary, marks, stop_requested,
                   agents, api_vars, sbx_vars>>

FinishStep == FinishStepLoop /\ UNCHANGED obs_failed

\* Mutant: no break, the loop goes round again without counting an iteration.
MutDeadlockContinue ==
    /\ pc = "loop"
    /\ LoopGuard(steps, iteration, max_iterations)
    /\ get_next_step(steps) = 0
    /\ UNCHANGED vars

\* get_next_step() is None inside the loop: pending steps are failed with the
\* deadlock error, the loop breaks and the summary is computed.
DeadlockBreakLoop ==
    /\ pc = "loop"
    /\ LoopGuard(steps, iteration, max_iterations)
    /\ get_next_step(steps) = 0
    /\ steps' = IF CountStatus(steps, "pending") > 0 THEN FailPending(steps) ELSE steps
    /\ summary' = Summary(steps')
    /\ pc' = "done"
    /\ UNCHANGED <<reflection_log, cur, iteration, max_iterations,
                   consecutive_failures, n0, trace, marks, last_outcome,
                   stop_requested, exec_vars, api_vars, sbx_vars>>

DeadlockBreak == DeadlockBreakLoop /\ UNCHANGED obs_failed

\* The while condition is false: the summary is computed and run_loop returns.
LoopExitLoop ==
    /\ pc = "loop"
    /\ ~LoopGuard(steps, iteration, max_iterations)
    /\ summary' = Summary(steps)
    /\ pc' = "done"
    /\ UNCHANGED <<steps, reflection_log, cur, iteration, max_iterations,
                   consecutive_failures, n0, trace, marks, last_outcome,
                   stop_requested, exec_vars, api_vars, sbx_vars>>

LoopExit == LoopExitLoop /\ UNCHANGED obs_failed

Next == StartStep \/ FinishStep \/ DeadlockBreak \/ LoopExit

Spec == Init /\ [][Next]_vars

\* The liveness claims are checked on the task lists whose tasks name no
\* agent (task_info.get('agent', 'coder') gives every step 'coder'): the agent
\* type has no part in the scheduling, the retry rule or the loop guard.
\* The loop is single-threaded and every handler call is assumed to return,
\* so an enabled step of the loop is eventually taken.
CoderTaskLists == {tl \in TaskLists : \A k \in 1..Len(tl) : tl[k].agent = "coder"}

FairInit == \E tasks \in CoderTaskLists : RunLoopEntry(tasks) /\ obs_failed = FALSE

FairSpec == FairInit /\ [][Next]_vars /\ WF_vars(Next)

\* ----------------------------------------------------------- ResolveSpec
\* run_loop on an orchestrator built with any registry, for steps of any
\* agent type: exact keys, other case, longer and shorter names, names that
\* match no key, and the empty name.
ResolveAgentTypes ==
    {"coder", "Coder", "file", "FILES", "web", "Web", "casual", "planner", "co", ""}

ResolveRegistries ==
    {PlannerAgents, <<"file", "coder">>, <<"files", "file", "web">>, <<"web">>,
     <<"casual", "coder", "file", "web">>, <<>>}

\* The first task has any of the agent types, the tasks after it the
\* default one; a task needs nothing or the first task.
ResolveNeeds == {[isstr |-> TRUE, s |-> x, l |-> {}] : x \in {"", "1"}}

ResolveTaskLists ==
    {tl \in UNION {[1..n -> [agent : ResolveAgentTypes, need : ResolveNeeds]] :
                    n \in 1..MaxSteps} :
        \A k \in 2..Len(tl) : tl[k].agent = "coder"}

ResolveInit ==
    \E tasks \in ResolveTaskLists, registry \in ResolveRegistries :
        RunLoopEntryWith(tasks, registry) /\ obs_failed = FALSE

ResolveSpec == ResolveInit /\ [][Next]_vars

\* ------------------------------------------------------------- StopSpec
\* run_loop with the /stop endpoint called at any moment, any number of times;
\* the loop itself keeps stepping as in FairSpec.
\* The current agent's stop flag after request_stop().
request_stop == TRUE

\* GET /stop: interaction.current_agent.request_stop(); is_generating = False.
RequestStop ==
    /\ stop_requested' = request_stop
    /\ is_generating' = FALSE
    /\ UNCHANGED <<steps, reflection_log, pc, cur, iteration, max_iterations,
                   consecutive_failures, n0, trace, summary, marks, last_outcome,
                   obs_failed, exec_vars, run_pc, self_plan, sbx_vars>>

StopNext == Next \/ RequestStop

StopSpec == FairInit /\ [][StopNext]_vars /\ WF_vars(Next)

\* -------------------------------------------------------------- ApiSpec
\* The /query and /stop endpoints of api.py served by one event loop, for
\* requests the router hands to the planner agent: a handler runs from one
\* await to the next without interruption, and between two awaits of one
\* request any other request may be served.  run_pc tells where the handler
\* of each /query request is: "none" (not made), "rejected" (answered 429),
\* "planning" (is_generating set, awaiting make_plan), "running" (run_loop
\* has made its plan and awaits a handler call or an observer call),
\* "finishing" (run_loop has returned, think_wrapper awaits send_status),
\* "returned".
ApiInit ==
    /\ steps = <<>>
    /\ n0 = 0
    /\ max_iterations = 0
    /\ reflection_log = <<>>
    /\ pc = "api"
    /\ cur = 0
    /\ iteration = 0
    /\ consecutive_failures = 0
    /\ trace = <<>>
    /\ summary = <<0, 0>>
    /\ marks = 0
    /\ last_outcome = NoOutcome
    /\ stop_requested = FALSE
    /\ agents = PlannerAgents
    /\ NoStep
    /\ ApiNew
    /\ obs_failed = FALSE
    /\ SandboxNew

\* What the endpoints leave alone: the plan and the loop of the model of
\* run_loop, and the sandbox.
api_frame == <<steps, reflection_log, pc, cur, iteration, max_iterations,
               consecutive_failures, n0, trace, summary, marks, last_outcome,
               obs_failed, exec_vars, sbx_vars>>

\* POST /query while is_generating: 429, nothing is started.
QueryRejected ==
    /\ is_generating
    /\ \E q \in 1..MaxQueries :
          /\ run_pc[q] = "none"
          /\ run_pc' = [run_pc EXCEPT ![q] = "rejected"]
    /\ UNCHANGED <<is_generating, self_plan, stop_requested, api_frame>>

\* POST /query while not is_generating: is_generating = True and
\* think_wrapper is awaited, up to the planner's await of make_plan.
QueryAccepted ==
    /\ ~is_generating
    /\ \E q \in 1..MaxQueries :
          /\ run_pc[q] = "none"
          /\ run_pc' = [run_pc EXCEPT ![q] = "planning"]
    /\ is_generating' = TRUE
    /\ UNCHANGED <<self_plan, stop_requested, api_frame>>

\* The planner calls orchestrator.run_loop: create_plan_from_tasks sets
\* self.plan to the new plan, and the loop runs to its first await.
RunLoopStarts ==
    /\ \E q \in 1..MaxQueries :
          /\ run_pc[q] = "planning"
          /\ run_pc' = [run_pc EXCEPT ![q] = "running"]
          /\ self_plan' = q
    /\ UNCHANGED <<is_generating, stop_requested, api_frame>>

\* run_loop returns (it reads no stop flag: it returns when its plan is
\* complete); think_wrapper goes on to its await of send_status.
RunLoopReturns ==
    /\ \E q \in 1..MaxQueries :
          /\ run_pc[q] = "running"
          /\ run_pc' = [run_pc EXCEPT ![q] = "finishing"]
    /\ UNCHANGED <<is_generating, self_plan, stop_requested, api_frame>>

\* think_wrapper returns to process_query: is_generating = False, and the
\* response is sent.
QueryEnds ==
    /\ \E q \in 1..MaxQueries :
          /\ run_pc[q] = "finishing"
          /\ run_pc' = [run_pc EXCEPT ![q] = "returned"]
    /\ is_generating' = FALSE
    /\ UNCHANGED <<self_plan, stop_requested, api_frame>>

\* GET /stop once interaction.current_agent is set, which the first accepted
\* query does (before that /stop answers 503 and changes nothing).
Stop ==
    /\ \E q \in 1..MaxQueries : run_pc[q] \notin {"none", "rejected"}
    /\ RequestStop

ApiNext ==
    QueryRejected \/ QueryAccepted \/ RunLoopStarts \/ RunLoopReturns
        \/ QueryEnds \/ Stop

ApiSpec == ApiInit /\ [][ApiNext]_vars

\* -------------------------------------------------------------- ObsSpec
\* run_loop with an observer (ws_manager) whose calls may fail: in every step
\* of the loop some observer call fails (f) or none does.
\* The task lists of ObsSpec: every 'need' is a string (one dependency id or
\* none), every agent the default; the observer calls depend on neither.
ObsTaskLists == {tl \in CoderTaskLists : \A k \in 1..Len(tl) : tl[k].need.isstr}

ObsInit == \E tasks \in ObsTaskLists : RunLoopEntry(tasks) /\ obs_failed = FALSE

\* The failure gets out of the wrapper and ends run_loop, or the step of the
\* loop goes on as it does without a failure.
Observed(f, at, LoopStep) ==
    IF ObserverEscapes(f)
    THEN /\ pc = at
         /\ pc' = "raised"
         /\ obs_failed' = TRUE
         /\ UNCHANGED <<steps, reflection_log, cur, iteration, max_iterations,
                        consecutive_failures, n0, trace, summary, marks,
                        last_outcome, stop_requested, exec_vars, api_vars, sbx_vars>>
    ELSE /\ LoopStep
         /\ obs_failed' = (obs_failed \/ f)

\* _notify_plan, _send_peor("execute"), send_agent_thinking, _notify_status.
ObsStartStep == \E f \in BOOLEAN : Observed(f, "loop", StartStepLoop)

\* _send_peor("observe" / "reflect" / "revise"), send_execution_log,
\* _notify_plan, _send_progress.
ObsFinishStep == \E f \in BOOLEAN : Observed(f, "exec", FinishStepLoop)

\* _notify_status("orchestrator", "Selesai: ...") after the loop.
ObsDeadlockBreak == \E f \in BOOLEAN : Observed(f, "loop", DeadlockBreakLoop)

ObsLoopExit == \E f \in BOOLEAN : Observed(f, "loop", LoopExitLoop)

ObsNext == ObsStartStep \/ ObsFinishStep \/ ObsDeadlockBreak \/ ObsLoopExit

ObsSpec == ObsInit /\ [][ObsNext]_vars /\ WF_vars(ObsNext)

\* ------------------------------------------------------------- PlanSpec
\* The plan built by create_plan_from_tasks and then changed through the
\* public mutators, in any order: mark_step_done, mark_step_failed and
\* revise_plan (for any step of the plan).
PlanNeeds ==
    {[isstr |-> TRUE, s |-> "", l |-> {}],
     [isstr |-> TRUE, s |-> "1", l |-> {}],
     [isstr |-> FALSE, s |-> "", l |-> {"2", "3"}]}

PlanTaskLists ==
    UNION {[1..n -> [agent : InitAgents, need : PlanNeeds]] : n \in 0..MaxPlanInit}

PlanErrors == {"boom", "Timeout"}

PlanInit ==
    \E tasks \in PlanTaskLists :
        /\ steps = create_plan_from_tasks(tasks)
        /\ n0 = Len(tasks)
        /\ max_iterations = 0
        /\ reflection_log = <<>>
        /\ pc = "api"
        /\ cur = 0
        /\ iteration = 0
        /\ consecutive_failures = 0
        /\ trace = <<>>
        /\ summary = <<0, 0>>
        /\ marks = 0
        /\ last_outcome = NoOutcome
        /\ stop_requested = FALSE
        /\ agents = PlannerAgents
        /\ NoStep
        /\ ApiNew
        /\ obs_failed = FALSE
        /\ SandboxNew

\* plan.mark_step_done(id, result), for an id of the plan or one past it.
ApiMarkDone ==
    /\ pc = "api"
    /\ marks < MaxMarks
    /\ \E id \in 1..(Len(steps) + 1), r \in HandlerAnswers :
          steps' = mark_step_done(steps, id, r)
    /\ marks' = marks + 1
    /\ UNCHANGED <<reflection_log, pc, cur, iteration, max_iterations,
                   consecutive_failures, n0, trace, summary, last_outcome,
                   stop_requested, obs_failed, exec_vars, api_vars, sbx_vars>>

\* plan.mark_step_failed(id, error).
ApiMarkFailed ==
    /\ pc = "api"
    /\ marks < MaxMarks
    /\ \E id \in 1..(Len(steps) + 1), e \in PlanErrors :
          steps' = mark_step_failed(steps, id, e)
    /\ marks' = marks + 1
    /\ UNCHANGED <<reflection_log, pc, cur, iteration, max_iterations,
                   consecutive_failures, n0, trace, summary, last_outcome,
                   stop_requested, obs_failed, exec_vars, api_vars, sbx_vars>>

\* orchestrator.revise_plan(step) for a step of the plan.
ApiRevise ==
    /\ pc = "api"
    /\ Len(steps) < MaxPlanLen
    /\ \E i \in Indices(steps) : steps' = revise_plan(steps, steps[i])
    /\ UNCHANGED <<reflection_log, pc, cur, iteration, max_iterations,
                   consecutive_failures, n0, trace, summary, marks, last_outcome,
                   stop_requested, obs_failed, exec_vars, api_vars, sbx_vars>>

PlanNext == ApiMarkDone \/ ApiMarkFailed \/ ApiRevise

PlanSpec == PlanInit /\ [][PlanNext]_vars

\* ------------------------------------------------------------ ReviseSpec
\* revise_plan called once for a failed step, over the agent types and error
\* texts its branches tell apart ("" stands for an error of None or "").
ReviseAgents == {"coder", "Coder", "file", "File", "web", "casual", "planner", "Planner"}

ReviseErrors == ErrorTexts \cup {""}

ReviseInit ==
    \E a \in ReviseAgents, e \in ReviseErrors :
        /\ steps = <<[TaskStep(1, a, DefaultMaxAttempts, {}) EXCEPT
                        !.status = "failed", !.attempts = DefaultMaxAttempts,
                        !.error = e]>>
        /\ n0 = 1
        /\ max_iterations = 0
        /\ reflection_log = <<>>
        /\ pc = "revise"
        /\ cur = 1
        /\ iteration = 0
        /\ consecutive_failures = 0
        /\ trace = <<>>
        /\ summary = <<0, 0>>
        /\ marks = 0
        /\ last_outcome = NoOutcome
        /\ stop_requested = FALSE
        /\ agents = PlannerAgents
        /\ NoStep
        /\ ApiNew
        /\ obs_failed = FALSE
        /\ SandboxNew

\* orchestrator.revise_plan(failed_step) for the failed step.
ReviseFailed ==
    /\ pc = "revise"
    /\ steps' = revise_plan(steps, steps[cur])
    /\ pc' = "revised"
    /\ UNCHANGED <<reflection_log, cur, iteration, max_iterations,
                   consecutive_failures, n0, trace, summary, marks, last_outcome,
                   stop_requested, obs_failed, exec_vars, api_vars, sbx_vars>>

ReviseNext == ReviseFailed

ReviseSpec == ReviseInit /\ [][ReviseNext]_vars

\* -------------------------------------------------------------- sandbox
\* A snippet is a sequence of lines and a line a sequence of lexemes; a
\* pattern is searched lexeme by lexeme.  The lines snippets are drawn from:
LSystem == <<"os.system(", "'id')">>

LSubprocess == <<"subprocess.run(", "['ls'])">>

LFlask == <<"from flask import", "Flask">>

LAppRun == <<"app.run(", ")">>

LPrint == <<"print(", "'hi')">>

LMain == <<"if __name__", "==", "'__main__':">>

LPopen == <<"    ", "os.popen(", "'ls')">>

LPasswd == <<"open('/etc/passwd", "')">>

LServe == <<"serve(app", ")">>

SnippetLines ==
    {LSystem, LSubprocess, LFlask, LAppRun, LPrint, LMain, LPopen, LPasswd, LServe}

Snippets == UNION {[1..n -> SnippetLines] : n \in 0..MaxLines}

DANGEROUS_PATTERNS ==
    <<"\\bos\\.system\\b", "\\bos\\.popen\\b", "\\bos\\.exec\\w*\\b",
      "\\bos\\.spawn\\w*\\b", "\\bos\\.kill\\b", "\\bos\\.remove\\b",
      "\\bos\\.unlink\\b", "\\bos\\.rmdir\\b", "\\bsubprocess\\.\\w+",
      "\\bshutil\\.rmtree\\b", "\\bshutil\\.move\\b", "\\b__import__\\b",
      "\\bimportlib\\b", "\\beval\\s*\\(", "\\bexec\\s*\\(", "\\bcompile\\s*\\(",
      "\\bopen\\s*\\(.*/etc/", "\\bsocket\\.\\w+", "\\bctypes\\b",
      "\\bsignal\\.SIG", "\\bsys\\.exit\\b", "\\bos\\._exit\\b", "\\bPickle\\b",
      "\\bpickle\\.loads\\b", "\\bmarshall\\b">>

SERVER_START_PATTERNS ==
    <<"\\.run\\s*\\(", "app\\.run\\s*\\(", "uvicorn\\.run\\s*\\(",
      "serve\\s*\\(\\s*app", "httpd\\.serve_forever\\s*\\(", "socketserver\\.",
      "http\\.server", "waitress\\.serve\\s*\\(", "gunicorn", "flask\\s+run">>

server_indicators ==
    <<"from\\s+flask\\s+import", "from\\s+fastapi\\s+import", "import\\s+flask",
      "import\\s+fastapi", "app\\s*=\\s*Flask\\s*\\(", "app\\s*=\\s*FastAPI\\s*\\(",
      "app\\.run\\s*\\(", "uvicorn\\.run\\s*\\(", "@app\\.route\\s*\\(",
      "@app\\.(get|post|put|delete|patch)\\s*\\(">>

DANGEROUS_BASH_PATTERNS ==
    <<"\\brm\\s+-rf\\b", "\\brm\\s+-fr\\b", "\\brm\\s+--no-preserve-root\\b",
      "\\bdd\\s+", "\\bmkfs\\b", "\\bfdisk\\b", "\\bparted\\b",
      "\\bchmod\\s+777\\b", "\\bchmod\\s+-R\\b", "\\bchown\\s+-R\\b",
      "\\b:\\(\\)\\s*\\{\\s*:\\|:\\s*&\\s*\\}\\s*;", "\\bshutdown\\b",
      "\\breboot\\b", "\\bhalt\\b", "\\binit\\s+0\\b",
      "\\bsystemctl\\s+(stop|disable|mask)\\b", "\\bmv\\s+/\\b", "\\b>\\s*/dev/sd",
      "\\bcurl\\b.*\\|\\s*bash", "\\bwget\\b.*\\|\\s*bash", "\\bnc\\s+-l",
      "\\bnetcat\\b", "\\bnmap\\b", "\\biptables\\b", "\\bpasswd\\b",
      "\\buseradd\\b", "\\buserdel\\b", "\\bvisudo\\b", "\\bsudo\\b", "\\bsu\\s+",
      "\\bchroot\\b">>

DANGEROUS_JS_PATTERNS ==
    <<"\\bchild_process\\b", "\\bexec\\s*\\(", "\\bexecSync\\b", "\\bspawn\\b",
      "\\bspawnSync\\b", "\\beval\\s*\\(", "\\bFunction\\s*\\(", "\\bfs\\.rmSync\\b",
      "\\bfs\\.unlinkSync\\b", "\\bprocess\\.exit\\b",
      "\\brequire\\s*\\(\\s*[\"']child_process[\"']\\s*\\)">>

\* LANGUAGE_CONFIG[language]['patterns']
LanguagePatterns(language) ==
    CASE language = "python" -> DANGEROUS_PATTERNS
      [] language \in {"javascript", "nodejs"} -> DANGEROUS_JS_PATTERNS
      [] language = "bash" -> DANGEROUS_BASH_PATTERNS
      [] OTHER -> <<>>

RESTRICTED_PATHS ==
    <<"/etc/passwd", "/etc/shadow", "/etc/sudoers", "/root", "/proc", "/sys",
      "/home/runner/.config">>

\* re.search(pattern, lexeme): the text matched within one lexeme ("": none).
Search(pattern, lexeme) ==
    CASE pattern = "\\bos\\.system\\b" /\ lexeme = "os.system(" -> "os.system"
      [] pattern = "\\bos\\.popen\\b" /\ lexeme = "os.popen(" -> "os.popen"
      [] pattern = "\\bsubprocess\\.\\w+" /\ lexeme = "subprocess.run(" -> "subprocess.run"
      [] pattern = "\\bopen\\s*\\(.*/etc/" /\ lexeme = "open('/etc/passwd" -> "open('/etc/"
      [] pattern = "\\.run\\s*\\(" /\ lexeme \in {"subprocess.run(", "app.run("} -> ".run("
      [] pattern = "app\\.run\\s*\\(" /\ lexeme = "app.run(" -> "app.run("
      [] pattern = "from\\s+flask\\s+import" /\ lexeme = "from flask import" -> "from flask import"
      [] pattern = "serve\\s*\\(\\s*app" /\ lexeme = "serve(app" -> "serve(app"
      [] pattern = "\\brm\\s+-rf\\b" /\ lexeme = "rm -rf" -> "rm -rf"
      [] pattern = "\\bnmap\\b" /\ lexeme = "nmap" -> "nmap"
      [] pattern = "\\bpasswd\\b" /\ lexeme = "/etc/passwd" -> "passwd"
      [] pattern = "\\bchild_process\\b" /\ lexeme = "'child_process')" -> "child_process"
      [] OTHER -> ""

\* restricted in lexeme, for a restricted path.
HasPath(restricted, lexeme) ==
    restricted = "/etc/passwd" /\ lexeme \in {"open('/etc/passwd", "/etc/passwd"}

\* The lexemes of a snippet, line by line.
RECURSIVE Lexemes(_)
Lexemes(code) ==
    IF code = <<>> THEN <<>> ELSE Head(code) \o Lexemes(Tail(code))

\* re.search(pattern, text) for a text given as its lexemes: the first match.
SearchText(pattern, lexemes) ==
    LET K == {k \in 1..Len(lexemes) : Search(pattern, lexemes[k]) # ""}
    IN  IF K = {} THEN "" ELSE Search(pattern, lexemes[Min(K)])

\* _check_path_safety(code) in workspace isolation mode: "" if safe, else the
\* reason (no line snippets are drawn from holds a '../../../').
check_path_safety(code) ==
    LET text == Lexemes(code)
        R == {r \in 1..Len(RESTRICTED_PATHS) :
                \E k \in 1..Len(text) : HasPath(RESTRICTED_PATHS[r], text[k])}
    IN  IF R = {} THEN ""
        ELSE "Access to restricted path blocked: " \o RESTRICTED_PATHS[Min(R)]

\* Mutant: three indicators are asked for.
MutServerCodeThree(code) ==
    LET text == Lexemes(code)
    IN  /\ code # <<>>
        /\ Cardinality({p \in 1..Len(server_indicators) :
                          SearchText(server_indicators[p], text) # ""}) >= 3

\* _is_server_code(code): at least two of the indicators are found.
is_server_code(code) ==
    LET text == Lexemes(code)
    IN  /\ code # <<>>
        /\ Cardinality({p \in 1..Len(server_indicators) :
                          SearchText(server_indicators[p], text) # ""}) >= 2

\* line.strip(): without the leading whitespace.
Strip(line) == IF line # <<>> /\ line[1] = "    " THEN Tail(line) ELSE line

\* line[0:1] in (' ', '\t')
Indented(line) == line # <<>> /\ line[1] = "    "

is_server_line(line) ==
    \E p \in 1..Len(SERVER_START_PATTERNS) :
        SearchText(SERVER_START_PATTERNS[p], Strip(line)) # ""

\* stripped.startswith('if __name__') and '__main__' in stripped
IsMainGuard(line) ==
    /\ Strip(line) # <<>>
    /\ Strip(line)[1] = "if __name__"
    /\ \E k \in 1..Len(Strip(line)) : Strip(line)[k] = "'__main__':"

\* The loop of _strip_server_start from line i on, skip_block as given.
RECURSIVE StripFrom(_, _, _)
StripFrom(code, i, skip_block) ==
    IF i > Len(code) THEN <<>>
    ELSE LET line == code[i]
             stripped == Strip(line)
         IN  IF is_server_line(line)
             THEN <<(<<"# [sandbox] server start removed:">> \o stripped)>>
                  \o StripFrom(code, i + 1, skip_block)
             ELSE IF IsMainGuard(line)
             THEN <<(<<"# [sandbox] main block removed:">> \o stripped)>>
                  \o StripFrom(code, i + 1, TRUE)
             ELSE IF skip_block /\ (stripped = <<>> \/ Indented(line))
             THEN <<(<<"# [sandbox]">> \o stripped)>>
                  \o StripFrom(code, i + 1, TRUE)
             ELSE <<line>> \o StripFrom(code, i + 1, FALSE)

\* _strip_server_start(code, 'python')
strip_server_start(code) == StripFrom(code, 1, FALSE)

\* Sandbox(block_network=False), the default.
block_network == FALSE

network_patterns ==
    <<"\\bsocket\\b", "\\burllib\\b", "\\brequests\\b", "\\bhttplib\\b", "\\bhttp\\b">>

\* validate_code(code, language): "" if safe, else the reason.
validate(code, language) ==
    LET text == Lexemes(code)
        patterns == LanguagePatterns(language)
        path_reason == check_path_safety(code)
        D == {p \in 1..Len(patterns) : SearchText(patterns[p], text) # ""}
        N == {p \in 1..Len(network_patterns) :
                SearchText(network_patterns[p], text) # ""}
    IN  IF path_reason # "" THEN path_reason
        ELSE IF D # {}
        THEN "Blocked dangerous pattern: " \o SearchText(patterns[Min(D)], text)
        ELSE IF block_network /\ language = "python" /\ N # {}
        THEN "Network access blocked: " \o SearchText(network_patterns[Min(N)], text)
        ELSE ""

\* validate_python(code)
validate_code(code) == validate(code, "python")

\* validate_bash(command), the command one line of lexemes.
validate_bash(command) == validate(<<command>>, "bash")

\* Shell commands: one line of lexemes each.  Every lexeme either is one of
\* the texts _is_system_install / _is_allowed_install look for (in some
\* letter case) or holds none of them.
CAptNmap == <<"apt-get install", "nmap">>

CBrew == <<"Brew Install", "wget">>

CPip == <<"pip install", "requests">>

CPipRm == <<"pip install", "x;", "rm -rf", "/">>

CPipApt == <<"pip install", "x", "&&", "apt update">>

CPipFlag == <<"pip install", "x", " --break-system-packages">>

CNpxPasswd == <<"npx ", "cat", "/etc/passwd">>

CLs == <<"ls">>

CRm == <<"rm -rf", "/tmp/x">>

CCat == <<"cat", "/etc/passwd">>

ShellCommands ==
    {CAptNmap, CBrew, CPip, CPipRm, CPipApt, CPipFlag, CNpxPasswd, CLs, CRm, CCat}

\* Snippets of the other languages.
LPackage == <<"package main">>

LConsole == <<"console.log(", "1)">>

LRequire == <<"require(", "'child_process')">>

GoSnippets == {<<LPackage>>, <<LPasswd>>}

JsSnippets == {<<LConsole>>, <<LRequire>>}

\* str.lower() of a lexeme.
LowerLexeme(lexeme) ==
    CASE lexeme = "Brew Install" -> "brew install"
      [] OTHER -> lexeme

system_patterns ==
    <<"apt install", "apt-get install", "apt update", "apt-get update",
      "brew install", "conda install">>

allowed_patterns ==
    <<"pip install", "pip3 install", "npm install", "npm i ", "yarn add",
      "yarn install", "npx ", "npm init", "npm create">>

\* any(pattern in cmd_lower for pattern in patterns)
AnyIn(patterns, command) ==
    \E p \in 1..Len(patterns), k \in 1..Len(command) :
        LowerLexeme(command[k]) = patterns[p]

\* _is_system_install(command)
is_system_install(command) == AnyIn(system_patterns, command)

\* _is_allowed_install(command)
is_allowed_install(command) == AnyIn(allowed_patterns, command)

\* command.replace(' --break-system-packages', '')
RemoveBreakFlag(command) ==
    SelectSeq(command, LAMBDA x : x # " --break-system-packages")

ServerCodeOutput ==
    "[server code] File backend berhasil disimpan. Server tidak dijalankan di sandbox karena port sudah digunakan. File siap digunakan."

\* The result _execute_code returns for a python snippet classed as server code.
ServerCodeResult == SandboxResult(TRUE, ServerCodeOutput, "", 0, "python")

\* Mutant: a rejection is reported with the time of a run.
MutBlockedResultTimed(reason, language) ==
    [SandboxResult(FALSE, "", reason, 1, language) EXCEPT
        !.blocked = TRUE, !.blocked_reason = reason]

\* The result returned for a snippet or command validate_code rejects.
BlockedResult(reason, language) ==
    [SandboxResult(FALSE, "", reason, 0, language) EXCEPT
        !.blocked = TRUE, !.blocked_reason = reason]

\* The result Sandbox.run returns for a language it has no runner for.
UnsupportedResult(language) ==
    SandboxResult(FALSE, "",
        "Unsupported language: " \o language
            \o ". Supported: python, javascript, nodejs, bash, go",
        0, language)

\* The text of a command: its lexemes, a blank between two.
RECURSIVE JoinLexemes(_)
JoinLexemes(command) ==
    IF command = <<>> THEN ""
    ELSE IF Len(command) = 1 THEN command[1]
    ELSE command[1] \o " " \o JoinLexemes(Tail(command))

\* Mutant: the refusal of a system install is flagged as blocked.
MutSystemInstallFlagged(command) ==
    [SandboxResult(TRUE, "[blocked] System package install not allowed", "", 0,
                   "bash") EXCEPT !.blocked = TRUE]

\* The result _execute_shell returns for a system package install.
SystemInstallResult(command) ==
    SandboxResult(TRUE,
        "[blocked] System package install not allowed: " \o JoinLexemes(command)
            \o "\nGunakan pip/npm/yarn untuk install packages.",
        "", 0, "bash")

\* ----------------------------------------------------------- truncation
MAX_OUTPUT_LENGTH == 50000

\* s repeated n times.
RECURSIVE Rep(_, _)
Rep(s, n) ==
    IF n = 0 THEN ""
    ELSE LET h == Rep(s, n \div 2)
         IN  h \o h \o (IF n % 2 = 1 THEN s ELSE "")

\* Texts a child may write: of exactly the cap, and one and two characters
\* longer.
AtCapText == "b" \o Rep("a", MAX_OUTPUT_LENGTH - 1)

OneOverText == AtCapText \o "c"

OverCapText == AtCapText \o "cd"

\* The note _truncate_output ends a truncated text with.
TruncationNote(omitted) ==
    "\n\n... [output truncated, " \o Str(omitted) \o " chars omitted]"

\* Mutant: a text of exactly the cap is truncated too.
MutTruncateAtCap(text) ==
    IF Len(text) >= MAX_OUTPUT_LENGTH
    THEN <<SubSeq(text, 1, MAX_OUTPUT_LENGTH)
             \o TruncationNote(Len(text) - MAX_OUTPUT_LENGTH), TRUE>>
    ELSE <<text, FALSE>>

\* Mutant: the note states the number of characters kept after the first.
MutTruncateCountOff(text) ==
    IF Len(text) > MAX_OUTPUT_LENGTH
    THEN <<SubSeq(text, 1, MAX_OUTPUT_LENGTH)
             \o TruncationNote(Len(text) - MAX_OUTPUT_LENGTH + 1), TRUE>>
    ELSE <<text, FALSE>>

\* _truncate_output(text): <<text, truncated>>
truncate_output(text) ==
    IF Len(text) > MAX_OUTPUT_LENGTH
    THEN <<SubSeq(text, 1, MAX_OUTPUT_LENGTH)
             \o TruncationNote(Len(text) - MAX_OUTPUT_LENGTH), TRUE>>
    ELSE <<text, FALSE>>

\* ------------------------------------------------------------- children
NoModuleError == "ModuleNotFoundError: No module named 'yaml'"

\* The same failure written without the quotes _try_auto_install looks for.
NoModuleUnquoted == "ImportError: No module named yaml"

ChildOutcome(kind, stdout, stderr, helpers) ==
    [kind |-> kind, stdout |-> stdout, stderr |-> stderr, helpers |-> helpers]

\* What a child does: it exits with code 0 or 1 or is still running at the
\* timeout, having written stdout and stderr, with helpers other processes
\* of its process group still alive then.
ChildOutcomes ==
    {ChildOutcome("exit0", s, "", 0) : s \in {"out", AtCapText, OneOverText, OverCapText}}
    \cup {ChildOutcome("exit0", "out", OverCapText, 0),
          ChildOutcome("exit0", "out", "", 1)}
    \cup {ChildOutcome("exit1", "", e, 0) :
            e \in {"Traceback: boom", NoModuleError, NoModuleUnquoted}}
    \cup {ChildOutcome("timeout", "partial", "", 0),
          ChildOutcome("timeout", "partial", "warn", 1),
          ChildOutcome("timeout", OverCapText, "", 0)}

\* The measured execution time of a run that spawned a child.
Elapsed == 1

\* The result _run_code_subprocess / _execute_shell_raw returns for what the
\* child did.
ChildResult(o, language) ==
    IF o.kind = "timeout"
    THEN [SandboxResult(FALSE, o.stdout, "Execution timed out after 60 seconds",
                        Elapsed, language) EXCEPT !.timed_out = TRUE]
    ELSE [SandboxResult(o.kind = "exit0", truncate_output(o.stdout)[1], o.stderr,
                        Elapsed, language) EXCEPT
             !.truncated = truncate_output(o.stdout)[2]]

\* The result _execute_shell_raw returns when starting bash raised.
ShellErrorResult == SandboxResult(FALSE, "", "[Errno 11] Resource temporarily unavailable", 0, "bash")

\* 'No module named' in result.errors
NoModuleNamed(result) == result.errors \in {NoModuleError, NoModuleUnquoted}

\* re.search(r"No module named ['\"]([^'\"]+)['\"]", error_text)
ModuleMatch(error_text) == error_text = NoModuleError

\* Mutant: one more round of the retry loop.
MutMaxRetriesThree == 2 + 1

\* max_retries of _execute_code.
max_retries == 2

\* Mutant: at the timeout only the child itself is killed (process.kill()).
MutKillChildOnly(live) == live - 1

\* os.killpg(os.getpgid(process.pid), signal.SIGKILL): the number of live
\* processes of the group afterwards.
killpg(live) == 0

\* The languages Sandbox.run is called with.
SandboxLanguages == {"python", "bash", "go", "JS", "ruby"}

\* language.lower().strip()
LangNorm(language) ==
    CASE language = "JS" -> "js"
      [] OTHER -> language

\* lang_map.get(language): the language of the runner ("": None).
lang_map(language) ==
    CASE language = "python" -> "python"
      [] language = "bash" -> "bash"
      [] language \in {"javascript", "js", "nodejs", "node"} -> "javascript"
      [] language \in {"go", "golang"} -> "go"
      [] OTHER -> ""

HasRunner(language) == lang_map(LangNorm(language)) # ""

\* The snippets and commands drawn for a language.
CallInputs(language) ==
    CASE language = "python" -> Snippets
      [] language = "bash" -> {<<c>> : c \in ShellCommands}
      [] language = "go" -> GoSnippets
      [] language = "JS" -> JsSnippets
      [] OTHER -> {<<>>}

\* What may happen on the way to a running child: the temp file cannot be
\* created, writing it fails, Popen raises, or the child runs.
SpawnOutcomes == {"ok", "create_error", "write_error", "popen_error"}

\* --------------------------------------------------------- SandboxSpec
\* One call of Sandbox.run on a new Sandbox, taken to its return or to the
\* exception that ends it.
SandboxInit ==
    /\ SandboxNew
    /\ steps = <<>>
    /\ n0 = 0
    /\ max_iterations = 0
    /\ reflection_log = <<>>
    /\ pc = "sandbox"
    /\ cur = 0
    /\ iteration = 0
    /\ consecutive_failures = 0
    /\ trace = <<>>
    /\ summary = <<0, 0>>
    /\ marks = 0
    /\ last_outcome = NoOutcome
    /\ stop_requested = FALSE
    /\ agents = PlannerAgents
    /\ NoStep
    /\ ApiNew
    /\ obs_failed = FALSE

\* Sandbox.run(code, language) is called, for one of the given pairs of a
\* language and a text.
CallOf(inputs) ==
    /\ sbx_pc = "idle"
    /\ \E c \in inputs :
          sbx_call' = [language |-> c[1], code |-> c[2], attempt |-> 0]
    /\ sbx_pc' = "called"
    /\ runs' = runs + 1
    /\ sbx_result' = NoResult
    /\ files_written' = 0
    /\ children' = 0
    /\ pip_installs' = 0
    /\ group_live' = 0
    /\ last_child' = NoChild
    /\ UNCHANGED <<loop_vars, obs_failed, execution_history, temp_files>>

\* Every language with every text drawn for it.
AllInputs == UNION {{<<l, c>> : c \in CallInputs(l)} : l \in SandboxLanguages}

\* The one call of SandboxSpec.
SandboxCall == runs = 0 /\ CallOf(AllInputs)

\* Mutant: the result is returned without being recorded.
MutReturnUnrecorded(result) ==
    /\ sbx_result' = result
    /\ UNCHANGED execution_history
    /\ sbx_pc' = "idle"
    /\ sbx_call' = NoCall

\* Mutant: the entry is put in front of the history.
MutReturnPrepends(result) ==
    /\ sbx_result' = result
    /\ execution_history' =
          <<(<<lang_map(LangNorm(sbx_call.language)), result>>)>> \o execution_history
    /\ sbx_pc' = "idle"
    /\ sbx_call' = NoCall

\* execution_history.append((language, result)) of the runner and the return
\* of the call.
Return(result) ==
    /\ sbx_result' = result
    /\ execution_history' =
          Append(execution_history, <<lang_map(LangNorm(sbx_call.language)), result>>)
    /\ sbx_pc' = "idle"
    /\ sbx_call' = NoCall

\* The call goes on to start a child for this text, the command of bash -c
\* or the content of the temp file.
ToSpawn(code) ==
    /\ sbx_call' = [sbx_call EXCEPT !.code = code]
    /\ sbx_pc' = "spawn"
    /\ UNCHANGED <<execution_history, sbx_result>>

\* _execute_code(code, language) up to its return or to the first call of
\* _run_code_subprocess.
ExecuteCode(code, language) ==
    IF language = "python" /\ is_server_code(code)
    THEN Return(ServerCodeResult)
    ELSE LET stripped == IF language = "python" THEN strip_server_start(code)
                         ELSE code
             reason == validate(stripped, language)
         IN  IF reason # ""
             THEN Return(BlockedResult(reason, language))
             ELSE ToSpawn(stripped)

\* Mutant: the command is validated before it is looked at for installs.
MutExecuteShellValidateFirst(command) ==
    IF validate_bash(command) # ""
    THEN Return(BlockedResult(validate_bash(command), "bash"))
    ELSE IF is_system_install(command)
    THEN Return(SystemInstallResult(command))
    ELSE IF is_allowed_install(command)
    THEN ToSpawn(<<RemoveBreakFlag(command)>>)
    ELSE ToSpawn(<<command>>)

\* Mutant: an allowed install is validated like any other command.
MutExecuteShellAlwaysValidates(command) ==
    IF is_system_install(command)
    THEN Return(SystemInstallResult(command))
    ELSE IF validate_bash(command) # ""
    THEN Return(BlockedResult(validate_bash(command), "bash"))
    ELSE ToSpawn(<<RemoveBreakFlag(command)>>)

\* _execute_shell(command) up to its return or to the call of
\* _execute_shell_raw.
ExecuteShell(command) ==
    IF is_system_install(command)
    THEN Return(SystemInstallResult(command))
    ELSE IF is_allowed_install(command)
    THEN ToSpawn(<<RemoveBreakFlag(command)>>)
    ELSE IF validate_bash(command) # ""
    THEN Return(BlockedResult(validate_bash(command), "bash"))
    ELSE ToSpawn(<<command>>)

\* The body of Sandbox.run up to its return or to the start of a child.
SandboxRun ==
    /\ sbx_pc = "called"
    /\ LET language == lang_map(LangNorm(sbx_call.language))
       IN  IF ~HasRunner(sbx_call.language)
           THEN /\ sbx_result' = UnsupportedResult(LangNorm(sbx_call.language))
                /\ sbx_pc' = "idle"
                /\ sbx_call' = NoCall
                /\ UNCHANGED execution_history
           ELSE IF language = "bash"
           THEN ExecuteShell(sbx_call.code[1])
           ELSE ExecuteCode(sbx_call.code, language)
    /\ UNCHANGED <<loop_vars, obs_failed, temp_files, files_written, children,
                   pip_installs, group_live, last_child, runs>>

\* _run_code_subprocess from the temp file to the wait for the child: the
\* temp file is written and the interpreter spawned.
SpawnChild ==
    /\ temp_files' = temp_files + 1
    /\ files_written' = files_written + 1
    /\ children' = children + 1
    /\ sbx_pc' = "child"

\* The exception leaves Sandbox.run: nothing is returned, nothing recorded.
Raise ==
    /\ sbx_pc' = "raised"
    /\ UNCHANGED <<execution_history, sbx_result, sbx_call>>

\* _run_code_subprocess (lines 363-397) or _execute_shell_raw (lines 483-501)
\* up to the wait for the child.
Spawn ==
    /\ sbx_pc = "spawn"
    /\ \E e \in SpawnOutcomes :
        IF lang_map(LangNorm(sbx_call.language)) = "bash"
        THEN /\ e \in {"ok", "popen_error"}
             /\ IF e = "ok"
                THEN /\ children' = children + 1
                     /\ group_live' = 1
                     /\ sbx_pc' = "child"
                     /\ UNCHANGED <<execution_history, sbx_result, sbx_call>>
                ELSE /\ Return(ShellErrorResult)
                     /\ UNCHANGED <<children, group_live>>
             /\ UNCHANGED <<temp_files, files_written>>
        ELSE CASE e = "ok" ->
                    /\ SpawnChild
                    /\ group_live' = 1
                    /\ UNCHANGED <<execution_history, sbx_result, sbx_call>>
               [] e = "create_error" ->
                    /\ Raise
                    /\ UNCHANGED <<temp_files, files_written, children, group_live>>
               [] e = "write_error" ->
                    /\ Raise
                    /\ temp_files' = temp_files + 1
                    /\ files_written' = files_written + 1
                    /\ UNCHANGED <<children, group_live>>
               [] e = "popen_error" ->
                    /\ Raise
                    /\ files_written' = files_written + 1
                    /\ UNCHANGED <<temp_files, children, group_live>>
    /\ UNCHANGED <<loop_vars, obs_failed, pip_installs, last_child, runs>>

\* The child does one of the given things: it exits, or it is still running
\* at the timeout, when its process group is killed; the temp file of a
\* snippet is unlinked; the result is returned, or after a missing module
\* and a successful pip install the snippet is run once more.
ChildEndsOf(outcomes) ==
    /\ sbx_pc = "child"
    /\ \E o \in outcomes, pip_ok \in BOOLEAN :
        LET language == lang_map(LangNorm(sbx_call.language))
            result == ChildResult(o, language)
            retry == /\ ~result.success
                     /\ language = "python"
                     /\ NoModuleNamed(result)
                     /\ sbx_call.attempt < max_retries - 1
            install == retry /\ ModuleMatch(result.errors)
        IN  /\ last_child' = o
            /\ group_live' = IF o.kind = "timeout" THEN killpg(1 + o.helpers)
                             ELSE o.helpers
            /\ temp_files' = IF language = "bash" THEN temp_files ELSE temp_files - 1
            /\ pip_installs' = IF install THEN pip_installs + 1 ELSE pip_installs
            /\ IF install /\ pip_ok
               THEN /\ sbx_call' = [sbx_call EXCEPT !.attempt = @ + 1]
                    /\ sbx_pc' = "spawn"
                    /\ UNCHANGED <<execution_history, sbx_result>>
               ELSE Return(result)
    /\ UNCHANGED <<loop_vars, obs_failed, files_written, children, runs>>

ChildEnds == ChildEndsOf(ChildOutcomes)

SandboxNext == SandboxCall \/ SandboxRun \/ Spawn \/ ChildEnds

SandboxSpec == SandboxInit /\ [][SandboxNext]_vars

\* --------------------------------------------------------- HistorySpec
\* The public operations of one Sandbox one after the other: run, for a few
\* calls of each kind of result, and clear_history.
HistoryInputs ==
    {<<"python", <<LPrint>>>>, <<"python", <<LSystem>>>>, <<"bash", <<CAptNmap>>>>,
     <<"go", <<LPackage>>>>, <<"ruby", <<>>>>}

HistoryOutcomes ==
    {ChildOutcome("exit0", "out", "", 0),
     ChildOutcome("exit1", "", "Traceback: boom", 0),
     ChildOutcome("timeout", "partial", "", 0)}

HistoryCall == runs < MaxRuns /\ CallOf(HistoryInputs)

HistoryChildEnds == ChildEndsOf(HistoryOutcomes)

\* sum(r.execution_time for _, r in history)
RECURSIVE TotalTime(_)
TotalTime(h) ==
    IF h = <<>> THEN 0 ELSE h[1][2].execution_time + TotalTime(Tail(h))

\* Sandbox.get_stats() for a history h (the times of the model are whole
\* seconds, which round(total_time, 2) leaves as they are).
get_stats(h) ==
    LET total == Len(h)
        success == Cardinality({k \in 1..Len(h) : h[k][2].success})
        blocked == Cardinality({k \in 1..Len(h) : h[k][2].blocked})
        timed_out == Cardinality({k \in 1..Len(h) : h[k][2].timed_out})
    IN  [total_executions |-> total,
         successful |-> success,
         failed |-> total - success,
         blocked |-> blocked,
         timed_out |-> timed_out,
         total_execution_time |-> TotalTime(h)]

\* Sandbox.clear_history()
ClearHistory ==
    /\ sbx_pc = "idle"
    /\ execution_history' = <<>>
    /\ UNCHANGED <<loop_vars, obs_failed, sbx_pc, sbx_call, sbx_result, temp_files,
                   files_written, children, pip_installs, group_live, last_child,
                   runs>>

HistoryNext ==
    HistoryCall \/ SandboxRun \/ Spawn \/ HistoryChildEnds \/ ClearHistory

HistorySpec == SandboxInit /\ [][HistoryNext]_vars

\* =========================================================== properties
\* Number of handler calls for step id that ended in failure / at all, and the
\* number started (the one being awaited included).
Fails(id) == Cardinality({k \in 1..Len(trace) : trace[k] = <<id, FALSE>>})

Ended(id) == Cardinality({k \in 1..Len(trace) : trace[k][1] = id})

Calls(id) == Ended(id) + (IF pc = "exec" /\ steps[cur].id = id THEN 1 ELSE 0)

\* Step i declares a dependency on step j.
DependsOn(i, j) == Str(steps[j].id) \in steps[i].dependencies

\* C1: a step that has failed max_attempts times is failed and its handler is
\* not invoked again (it is never running with its budget spent, and never
\* fails more often than max_attempts); a failure before that leaves it
\* pending when control is back at the loop head.
C1_RetryBudget ==
    \A i \in Indices(steps) :
        LET s == steps[i]
            f == Fails(s.id)
        IN  /\ f <= s.max_attempts
            /\ f = s.max_attempts => s.status = "failed"
            /\ s.status = "running" => f < s.max_attempts
            /\ (/\ pc = "loop"
                /\ trace # <<>>
                /\ trace[Len(trace)] = <<s.id, FALSE>>
                /\ f < s.max_attempts) => s.status = "pending"

\* A run in which a step spent its whole budget and another step ran after it.
C1_Witness ==
    \E i \in Indices(steps) :
        /\ Fails(steps[i].id) = steps[i].max_attempts
        /\ steps[i].status = "failed"
        /\ Len(trace) > Ended(steps[i].id)
        /\ trace[Len(trace)][1] # steps[i].id

\* Every dependency of step i that names a step of the plan names a completed one.
ExistingDepsCompleted(st, i) ==
    \A j \in Indices(st) :
        Str(st[j].id) \in st[i].dependencies => st[j].status = "completed"

\* C2: get_next_step never returns a step with an existing dependency that is
\* not completed, and the step run_loop has started has all of its existing
\* dependencies completed.
C2_NextStepDepsCompleted ==
    /\ get_next_step(steps) # 0 => ExistingDepsCompleted(steps, get_next_step(steps))
    /\ pc = "exec" => ExistingDepsCompleted(steps, cur)

\* A step with a dependency that exists in the plan has been started.
C2_Witness ==
    /\ pc = "exec"
    /\ \E j \in Indices(steps) :
          j # cur /\ DependsOn(cur, j) /\ steps[j].status = "completed"

\* The loop head finds no runnable step although some step is pending.
Deadlocked ==
    /\ pc = "loop"
    /\ get_next_step(steps) = 0
    /\ CountStatus(steps, "pending") > 0

\* C3: from a deadlocked loop head the very next step of run_loop ends the
\* loop with every pending step failed with the deadlock error and no step
\* pending, and that step is eventually taken.
C3_DeadlockEnds ==
    /\ [][Deadlocked =>
            /\ pc' = "done"
            /\ CountStatus(steps', "pending") = 0
            /\ \A i \in Indices(steps) :
                  steps[i].status = "pending" =>
                      /\ steps'[i].status = "failed"
                      /\ steps'[i].error = DeadlockError]_vars
    /\ (Deadlocked ~> pc = "done")

\* B depends on A, A failed by exhausting its attempts, B failed by deadlock.
C3_Witness ==
    /\ pc = "done"
    /\ \E a, b \in Indices(steps) :
        /\ a # b
        /\ DependsOn(b, a)
        /\ steps[a].status = "failed"
        /\ steps[a].attempts = steps[a].max_attempts
        /\ steps[b].status = "failed"
        /\ steps[b].error = DeadlockError

\* C4: the loop's cap is 4 times the number of steps at plan creation, it is
\* not recomputed, and neither the iteration counter nor the number of handler
\* invocations exceeds it.
C4_IterationCap ==
    /\ max_iterations = IterationFactor * n0
    /\ iteration <= IterationFactor * n0
    /\ Len(trace) + (IF pc = "exec" THEN 1 ELSE 0) <= IterationFactor * n0

\* A run of the largest plan in which every step used all of its attempts.
C4_Witness ==
    /\ pc = "done"
    /\ n0 = MaxSteps
    /\ iteration = DefaultMaxAttempts * n0

\* C5: a step that depends on a failed step is never started (no handler call,
\* attempts 0, never running); when the loop has ended it is failed with the
\* deadlock error, and the summary's completed count is the number of
\* completed steps: 0 of 2 for [1: coder, no deps; 2: file, needs 1] when step
\* 1 failed.
C5_DependentNeverStarted ==
    /\ \A i, j \in Indices(steps) :
          (DependsOn(j, i) /\ steps[i].status = "failed") =>
              /\ Calls(steps[j].id) = 0
              /\ steps[j].attempts = 0
              /\ steps[j].status \in {"pending", "failed"}
              /\ pc = "done" => /\ steps[j].status = "failed"
                                /\ steps[j].error = DeadlockError
    /\ pc = "done" =>
          /\ summary = <<CountStatus(steps, "completed"), Len(steps)>>
          /\ (/\ Len(steps) = 2
              /\ steps[1].dependencies = {}
              /\ steps[2].dependencies = {"1"}
              /\ steps[1].status = "failed") => summary = <<0, 2>>

\* The end-to-end example: step 1 (coder) failed three times, step 2 (file).
C5_Witness ==
    /\ pc = "done"
    /\ Len(steps) = 2
    /\ steps[1].agent_type = "coder"
    /\ steps[1].dependencies = {}
    /\ steps[2].agent_type = "file"
    /\ steps[2].dependencies = {"1"}
    /\ steps[1].status = "failed"
    /\ Fails(1) = DefaultMaxAttempts
    /\ steps[2].status = "failed"
    /\ summary = <<0, 2>>

\* C6: run_loop terminates.
C6_Terminates == <>(pc = "done")

\* A run on a plan with a dependency cycle has returned.
C6_Witness ==
    /\ pc = "done"
    /\ \E i, j \in Indices(steps) : i # j /\ DependsOn(i, j) /\ DependsOn(j, i)

\* C7: failed is terminal: a failed step stays failed in every step of
\* run_loop, is never handed to execute_step, and is never what get_next_step
\* returns.
C7_FailedIsTerminal ==
    /\ [][\A i \in Indices(steps) :
            steps[i].status = "failed" =>
                /\ i <= Len(steps')
                /\ steps'[i].status = "failed"
                /\ ~(pc' = "exec" /\ cur' = i)]_vars
    /\ [](\A i \in Indices(steps) :
            steps[i].status = "failed" => get_next_step(steps) # i)

\* A step is being executed while an earlier step of the plan is failed.
C7_Witness ==
    /\ pc = "exec"
    /\ \E i \in Indices(steps) : i < cur /\ steps[i].status = "failed"

\* The status changes the data model's invariant allows.
LifecycleChange(a, b) ==
    \/ a = "pending" /\ b = "running"
    \/ a = "running" /\ b \in {"completed", "pending", "failed"}

\* C8 as stated: every status change is pending -> running or running ->
\* {completed, pending, failed}.
C8_LifecycleOnly ==
    [][\A i \in Indices(steps) :
          steps'[i].status # steps[i].status =>
              LifecycleChange(steps[i].status, steps'[i].status)]_vars

\* C8, amended: every status change is pending -> running, running ->
\* {completed, pending, failed}, or pending -> failed made by the deadlock
\* branch (no runnable step at the loop head), which stores the deadlock error.
C8_LifecycleOrDeadlock ==
    [][\A i \in Indices(steps) :
          steps'[i].status # steps[i].status =>
              \/ LifecycleChange(steps[i].status, steps'[i].status)
              \/ /\ steps[i].status = "pending"
                 /\ steps'[i].status = "failed"
                 /\ Deadlocked
                 /\ steps'[i].error = DeadlockError
                 /\ pc' = "done"]_vars

\* A finished run in which one step completed, one failed through its
\* attempts and one was failed by the deadlock branch.
C8_Witness ==
    /\ pc = "done"
    /\ \E i \in Indices(steps) :
          steps[i].status = "failed" /\ steps[i].error = DeadlockError
    /\ \E i \in Indices(steps) :
          steps[i].status \in {"completed", "failed"} /\ Ended(steps[i].id) > 0

\* C9: attempts never exceeds max_attempts, in particular not on a failed step.
C9_AttemptsBounded ==
    \A i \in Indices(steps) : steps[i].attempts <= steps[i].max_attempts

\* A step failed with its attempts equal to max_attempts.
C9_Witness ==
    \E i \in Indices(steps) :
        /\ steps[i].status = "failed"
        /\ steps[i].attempts = steps[i].max_attempts
        /\ steps[i].error # DeadlockError

\* C10: step ids are pairwise distinct and strictly increasing in plan order,
\* and a step keeps its id while the plan grows, so an id that was assigned
\* is never given to another step.
C10_IdsUniqueIncreasing ==
    /\ [](\A i, j \in Indices(steps) : i < j => steps[i].id < steps[j].id)
    /\ [][/\ Len(steps') >= Len(steps)
          /\ \A i \in Indices(steps) : steps'[i].id = steps[i].id
          /\ \A k \in (Len(steps) + 1)..Len(steps') :
                \A i \in Indices(steps) : steps'[k].id # steps[i].id]_vars

\* A plan that revise_plan extended twice, once for a recovery step.
C10_Witness ==
    /\ pc = "api"
    /\ Len(steps) >= n0 + 2
    /\ n0 >= 1
    /\ \E k \in Indices(steps) : steps[k].max_attempts = RecoveryMaxAttempts

\* A step of the plan has used up its attempts through handler failures.
ExhaustedStep(i) ==
    /\ steps[i].status = "failed"
    /\ Fails(steps[i].id) = steps[i].max_attempts

\* C11 as stated: once a step of the initial plan has exhausted its attempts
\* through handler failures and is failed, revise_plan has run and the plan
\* holds a recovery step.
C11_SelfHealing ==
    (\E i \in 1..n0 : ExhaustedStep(i)) => Len(steps) > n0

\* The handler call that ended last was a success.
LastSuccess == trace[Len(trace)][2]

\* C12: a successful execution sets consecutive_failures to 0 and a failed one
\* adds 1; the plan grows by one recovery step in the iteration exactly when
\* the executed step has just become failed and the new consecutive_failures
\* is below 3, and in no other case; no other step of the loop touches the
\* counter or the length of the plan.
C12_RevisionGating ==
    /\ [][pc = "exec" =>
            /\ consecutive_failures' =
                  (IF LastSuccess' THEN 0 ELSE consecutive_failures + 1)
            /\ Len(steps') \in {Len(steps), Len(steps) + 1}
            /\ Len(steps') = Len(steps) + 1 <=>
                  (/\ ~LastSuccess'
                   /\ steps'[cur].status = "failed"
                   /\ consecutive_failures' < FailureThreshold)]_vars
    /\ [][pc # "exec" =>
            /\ consecutive_failures' = consecutive_failures
            /\ Len(steps') = Len(steps)]_vars

\* A success reset the counter, then a step failed until it was failed for
\* good with the counter at the threshold, and the plan was not revised.
C12_Witness ==
    /\ pc = "loop"
    /\ \E k \in 1..Len(trace) : trace[k][2]
    /\ ~LastSuccess
    /\ consecutive_failures = FailureThreshold
    /\ \E i \in Indices(steps) :
          /\ steps[i].id = trace[Len(trace)][1]
          /\ steps[i].status = "failed"
    /\ Len(steps) = n0

\* What revise_plan(st[i]) promises about the plan st2 it leaves.
RevisePost(st, i, st2) ==
    /\ Len(st2) = Len(st) + 1
    /\ SubSeq(st2, 1, Len(st)) = st
    /\ LET r == st2[Len(st2)]
       IN  /\ r.status = "pending"
           /\ r.attempts = 0
           /\ r.max_attempts = 2
           /\ r.dependencies = st[i].dependencies
           /\ \A j \in Indices(st) : r.id > st[j].id

\* C13: for every step of every reachable plan, revise_plan appends exactly
\* one step at the end: pending, attempts 0, max_attempts 2, the failed step's
\* dependencies, an id above every existing id; the existing steps keep all
\* their fields and their position; and the call leaves the reflection log
\* as it is.
C13_ReviseAppendsOne ==
    /\ [](\A i \in Indices(steps) :
            RevisePost(steps, i, revise_plan(steps, steps[i])))
    /\ [][Len(steps') # Len(steps) =>
            /\ \E i \in Indices(steps) : RevisePost(steps, i, steps')
            /\ reflection_log' = reflection_log]_vars

\* The plan ends with a recovery step made after a step with a dependency
\* had used up its attempts and was failed.
C13_Witness ==
    /\ pc = "api"
    /\ Len(steps) > n0
    /\ steps[Len(steps)].status = "pending"
    /\ steps[Len(steps)].max_attempts = RecoveryMaxAttempts
    /\ \E i \in 1..(Len(steps) - 1) :
          /\ steps[i].status = "failed"
          /\ steps[i].attempts = steps[i].max_attempts
          /\ steps[i].dependencies # {}
          /\ steps[Len(steps)].dependencies = steps[i].dependencies

\* The error text, lower-cased, holds one of the patterns.
ErrorHas(s, pats) == \E p \in pats : Contains(Lower(s.error), p)

\* C14: the capability of the recovery step is given by the first matching
\* row: 'no module named'/'import' -> the failed step's capability,
\* 'permission'/'access denied' -> file, 'syntax' -> coder,
\* 'timeout'/'connection' -> web, otherwise coder->file, file->coder,
\* web->casual, casual->coder and any other capability unchanged.
C14_RecoveryCapability ==
    pc = "revised" =>
        LET f == steps[1]
            own == Lower(f.agent_type)
            r == steps[2].agent_type
            Row1 == ErrorHas(f, {"no module named", "import"})
            Row2 == ErrorHas(f, {"permission", "access denied"})
            Row3 == ErrorHas(f, {"syntax"})
            Row4 == ErrorHas(f, {"timeout", "connection"})
        IN  /\ Row1 => r = own
            /\ (~Row1 /\ Row2) => r = "file"
            /\ (~Row1 /\ ~Row2 /\ Row3) => r = "coder"
            /\ (~Row1 /\ ~Row2 /\ ~Row3 /\ Row4) => r = "web"
            /\ (~Row1 /\ ~Row2 /\ ~Row3 /\ ~Row4) =>
                  /\ own = "coder" => r = "file"
                  /\ own = "file" => r = "coder"
                  /\ own = "web" => r = "casual"
                  /\ own = "casual" => r = "coder"
                  /\ own \notin {"coder", "file", "web", "casual"} => r = f.agent_type

\* An error that matches the import row and the permission row: the import
\* row, first in the table, decides.
C14_Witness ==
    /\ pc = "revised"
    /\ steps[1].error = "Permission denied on import"
    /\ steps[1].agent_type = "web"
    /\ steps[2].agent_type = "web"

\* Every handler call that has ended so far failed.
AllFailed == \A k \in 1..Len(trace) : ~trace[k][2]

\* C15: with a handler that fails on every call the plan gains fewer than one
\* recovery step, whatever the number of initial steps, and no step of the
\* loop that leaves consecutive_failures at 3 or more lengthens the plan.
C15_PlanGrowthBounded ==
    /\ [](AllFailed => Len(steps) - n0 < 1)
    /\ [][consecutive_failures' >= FailureThreshold =>
            Len(steps') = Len(steps)]_vars

\* The largest plan, run to the end with every handler call failing.
C15_Witness ==
    /\ pc = "done"
    /\ n0 = MaxSteps
    /\ AllFailed
    /\ Len(trace) = DefaultMaxAttempts * n0
    /\ consecutive_failures >= FailureThreshold

\* C16: at most one step is running, and one is running exactly while a
\* handler call is awaited: the step handed to execute_step.
C16_OneRunning ==
    /\ CountStatus(steps, "running") <= 1
    /\ pc = "exec" => steps[cur].status = "running"
    /\ pc # "exec" => CountStatus(steps, "running") = 0

\* A step is running while another pending step has its dependencies met.
C16_Witness ==
    /\ pc = "exec"
    /\ \E j \in Indices(steps) :
          j # cur /\ steps[j].status = "pending" /\ DepsMet(steps, j)

\* C17 as stated: once stop has been requested while a step is executing, no
\* step is scheduled after control is back at the loop head.
C17_StopHaltsScheduling ==
    []((stop_requested /\ pc = "exec") => [](pc = "loop" => [](pc # "exec")))

\* C18: an exception raised by the handler never leaves run_loop; the step of
\* the loop that receives it stores "Error: " and the exception text as the
\* step's error, counts one attempt, sets the status by the retry rule, counts
\* one consecutive failure, and is back at the loop head.
C18_HandlerExceptionContained ==
    /\ [](pc # "raised")
    /\ [][(pc = "exec" /\ pc' # "exec" /\ last_outcome'.kind = "raise") =>
            /\ pc' = "loop"
            /\ steps'[cur].error = "Error: " \o last_outcome'.text
            /\ steps'[cur].attempts = steps[cur].attempts + 1
            /\ steps'[cur].status =
                  (IF steps[cur].attempts + 1 >= steps[cur].max_attempts
                   THEN "failed" ELSE "pending")
            /\ trace' = Append(trace, <<steps[cur].id, FALSE>>)
            /\ consecutive_failures' = consecutive_failures + 1]_vars

\* A step failed for good on an exception, and the loop went on to execute
\* another step, whose handler raised as well.
C18_Witness ==
    /\ pc = "exec"
    /\ last_outcome.kind = "raise"
    /\ \E i \in Indices(steps) :
          /\ i # cur
          /\ steps[i].status = "failed"
          /\ steps[i].error = "Error: " \o last_outcome.text
          /\ steps[i].attempts = steps[i].max_attempts
    /\ steps[cur].attempts > 0
    /\ steps[cur].error = "Error: " \o last_outcome.text

\* A step of run_loop as it is without an observer.
LoopNext == StartStepLoop \/ FinishStepLoop \/ DeadlockBreakLoop \/ LoopExitLoop

\* C19: with observer calls that may fail, every step of run_loop changes the
\* plan (statuses, attempts), the step being executed, the counters and the
\* summary exactly as a step of the loop without observer does; no failure
\* leaves run_loop, and run_loop returns its summary.
C19_ObserverBestEffort ==
    /\ [][LoopNext]_<<loop_vars, sbx_vars>>
    /\ [](pc # "raised")
    /\ <>(pc = "done")

\* Observer calls failed and run_loop returned after a step completed and a
\* step failed.
C19_Witness ==
    /\ obs_failed
    /\ pc = "done"
    /\ CountStatus(steps, "completed") > 0
    /\ CountStatus(steps, "failed") > 0
    /\ summary = <<CountStatus(steps, "completed"), Len(steps)>>

\* The snippet holds a direct process-spawn call: os.system, os.popen or
\* subprocess.*.
HasSpawnCall(code) ==
    \E k \in 1..Len(Lexemes(code)) :
        Lexemes(code)[k] \in {"os.system(", "os.popen(", "subprocess.run("}

\* C20 as stated: a call of Sandbox.run for a python snippet that holds a
\* direct process-spawn call returns with blocked = true and success = false,
\* and writes no temp file and spawns no child.
C20_SpawnAlwaysBlocked ==
    [][(/\ sbx_pc = "called"
        /\ sbx_call.language = "python"
        /\ HasSpawnCall(sbx_call.code)) =>
            /\ sbx_pc' = "idle"
            /\ sbx_result'.blocked
            /\ ~sbx_result'.success
            /\ files_written' = files_written
            /\ children' = children]_vars

\* Step i is pending and every dependency id of it either matches no step of
\* the plan or is the id of a completed step.
Runnable(st, i) ==
    /\ st[i].status = "pending"
    /\ \A dep \in st[i].dependencies :
          \/ \A j \in Indices(st) : Str(st[j].id) # dep
          \/ \E j \in Indices(st) : Str(st[j].id) = dep /\ st[j].status = "completed"

\* C30: get_next_step returns the first step in plan order that is pending
\* and has every dependency id either absent from the plan or the id of a
\* completed step; it returns none exactly when there is no such step.  The
\* step run_loop has started is that step: no earlier step was runnable.
C30_NextStepExact ==
    LET r == get_next_step(steps)
    IN  /\ r = 0 <=> \A i \in Indices(steps) : ~Runnable(steps, i)
        /\ r # 0 => /\ Runnable(steps, r)
                    /\ \A i \in 1..(r - 1) : ~Runnable(steps, i)
        /\ pc = "exec" => \A i \in 1..(cur - 1) : ~Runnable(steps, i)

\* run_loop has started a step that names a dependency no step has, passing
\* over an earlier pending step whose dependency is not completed.
C30_Witness ==
    /\ pc = "exec"
    /\ cur > 1
    /\ steps[1].status = "pending"
    /\ \E dep \in steps[cur].dependencies :
          \A j \in Indices(steps) : Str(steps[j].id) # dep

\* A run call returns the result of a child that has just ended.
ChildReturn == sbx_pc = "child" /\ sbx_pc' = "idle"

\* C21: when the child of a run (snippet or shell command) is still running
\* at the timeout, the call returns with timed_out = true, success = false and
\* the stdout captured so far as output, and no process of the child's process
\* group is alive at the return.
C21_TimeoutKillsGroup ==
    [][(sbx_pc = "child" /\ last_child'.kind = "timeout") =>
            /\ sbx_pc' = "idle"
            /\ sbx_result'.timed_out
            /\ ~sbx_result'.success
            /\ sbx_result'.output = last_child'.stdout
            /\ group_live' = 0]_vars

\* A shell command has timed out while another process of its group was
\* alive, and has returned.
C21_Witness ==
    /\ sbx_pc = "idle"
    /\ sbx_result.timed_out
    /\ sbx_result.language = "bash"
    /\ last_child.helpers = 1
    /\ group_live = 0

\* C22: the output of a run whose child has exited is the stdout of the child
\* unchanged, with truncated = false, when that is no longer than the cap;
\* otherwise it is the first cap characters of the stdout followed by the
\* note that states the number of characters left out, with truncated = true.
C22_TruncationExact ==
    [][(ChildReturn /\ last_child'.kind # "timeout") =>
            LET text == last_child'.stdout
                L == Len(text)
                out == sbx_result'.output
            IN  IF L <= MAX_OUTPUT_LENGTH
                THEN out = text /\ ~sbx_result'.truncated
                ELSE /\ sbx_result'.truncated
                     /\ SubSeq(out, 1, MAX_OUTPUT_LENGTH) = SubSeq(text, 1, MAX_OUTPUT_LENGTH)
                     /\ SubSeq(out, MAX_OUTPUT_LENGTH + 1, Len(out)) =
                           "\n\n... [output truncated, "
                              \o ToString(L - MAX_OUTPUT_LENGTH) \o " chars omitted]"]_vars

\* A run has returned an output with exactly one character left out.
C22_Witness ==
    /\ sbx_pc = "idle"
    /\ sbx_result.truncated
    /\ Len(last_child.stdout) = MAX_OUTPUT_LENGTH + 1

\* A text as the cap leaves it.
Capped(text) ==
    IF Len(text) > MAX_OUTPUT_LENGTH
    THEN SubSeq(text, 1, MAX_OUTPUT_LENGTH)
            \o "\n\n... [output truncated, "
            \o ToString(Len(text) - MAX_OUTPUT_LENGTH) \o " chars omitted]"
    ELSE text

\* C23 as stated: the result of every run that had a child (exit code 0 or
\* not, or timeout) has its output and its errors capped, and truncated is
\* true exactly when a captured text was longer than the cap.
C23_AllOutputCapped ==
    [][ChildReturn =>
            LET o == last_child'
            IN  /\ sbx_result'.output = Capped(o.stdout)
                /\ o.kind # "timeout" => sbx_result'.errors = Capped(o.stderr)
                /\ sbx_result'.truncated <=>
                      \/ Len(o.stdout) > MAX_OUTPUT_LENGTH
                      \/ o.kind # "timeout" /\ Len(o.stderr) > MAX_OUTPUT_LENGTH]_vars

HasLexeme(code, lexeme) ==
    \E k \in 1..Len(Lexemes(code)) : Lexemes(code)[k] = lexeme

\* C24 as stated: a call of Sandbox.run for a python snippet with a
\* web-framework import and a server-start call returns success = true and
\* spawns no child.
C24_ServerSnippetNeverRun ==
    [][(/\ sbx_pc = "called"
        /\ sbx_call.language = "python"
        /\ HasLexeme(sbx_call.code, "from flask import")
        /\ HasLexeme(sbx_call.code, "app.run(") \/ HasLexeme(sbx_call.code, "serve(app")) =>
            /\ sbx_pc' = "idle"
            /\ sbx_result'.success
            /\ children' = children]_vars

\* C24 as amended: a call of Sandbox.run for a python snippet with two of the
\* indicators _is_server_code counts, a flask import and an app.run( call,
\* returns success = true at once: no temp file is written, no child spawned.
C24_TwoIndicatorsNeverRun ==
    [][(/\ sbx_pc = "called"
        /\ sbx_call.language = "python"
        /\ HasLexeme(sbx_call.code, "from flask import")
        /\ HasLexeme(sbx_call.code, "app.run(")) =>
            /\ sbx_pc' = "idle"
            /\ sbx_result'.success
            /\ ~sbx_result'.blocked
            /\ execution_history' = <<(<<"python", sbx_result'>>)>>
            /\ temp_files' = temp_files
            /\ files_written' = files_written
            /\ children' = children]_vars

\* A run has returned the server-code result without a child.
C24_Witness ==
    /\ sbx_pc = "idle"
    /\ runs = 1
    /\ sbx_result.success
    /\ sbx_result.output = ServerCodeOutput
    /\ children = 0
    /\ files_written = 0

\* The command invokes a system package manager: apt / apt-get install or
\* update, brew install, conda install, in any letter case drawn.
InvokesSystemInstall(command) ==
    \E k \in 1..Len(command) :
        command[k] \in {"apt install", "apt-get install", "apt update",
                        "apt-get update", "brew install", "conda install",
                        "Brew Install"}

\* The run call in progress is for this shell command.
ShellCall(command) ==
    sbx_call.language = "bash" /\ sbx_call.code = <<command>>

\* C25: a shell command that invokes a system package manager is never
\* executed and gives a result with success = true, blocked = false and an
\* output that begins '[blocked]'; 'pip install requests' is executed and its
\* success is whether the exit code is 0.
C25_SystemInstallRefused ==
    [][/\ \A c \in ShellCommands :
            (sbx_pc = "called" /\ ShellCall(c) /\ InvokesSystemInstall(c)) =>
                /\ sbx_pc' = "idle"
                /\ sbx_result'.success
                /\ ~sbx_result'.blocked
                /\ SubSeq(sbx_result'.output, 1, 9) = "[blocked]"
                /\ children' = 0
       /\ (sbx_pc = "called" /\ ShellCall(CPip)) => sbx_pc' = "spawn"
       /\ (ChildReturn /\ ShellCall(CPip)) =>
                /\ children = 1
                /\ sbx_result'.success <=> last_child'.kind = "exit0"]_vars

\* An apt-get install has been refused with a successful result.
C25_Witness ==
    /\ sbx_pc = "idle"
    /\ sbx_result.language = "bash"
    /\ sbx_result.success
    /\ ~sbx_result.blocked
    /\ sbx_result.output =
          "[blocked] System package install not allowed: apt-get install nmap\nGunakan pip/npm/yarn untuk install packages."
    /\ children = 0

\* The command invokes an application-level package manager.
InvokesAppInstall(command) ==
    \E k \in 1..Len(command) :
        command[k] \in {"pip install", "pip3 install", "npm install", "npm i ",
                        "yarn add", "yarn install", "npx ", "npm init", "npm create"}

\* The command names a restricted path or holds a text of the bash denylist.
ShellUnsafe(command) ==
    \E k \in 1..Len(command) : command[k] \in {"/etc/passwd", "rm -rf", "nmap"}

\* C26: for every shell command one policy applies, the first that fits:
\* a system package manager is refused without execution; else an
\* application-level package manager is executed without validation; else the
\* command is executed if validation passes and returned blocked = true,
\* without execution, if it does not.
C26_ShellPolicyOrder ==
    [][\A c \in ShellCommands :
        (sbx_pc = "called" /\ ShellCall(c)) =>
            IF InvokesSystemInstall(c)
            THEN sbx_pc' = "idle" /\ ~sbx_result'.blocked /\ sbx_result'.success
            ELSE IF InvokesAppInstall(c)
            THEN sbx_pc' = "spawn"
            ELSE IF ShellUnsafe(c)
            THEN /\ sbx_pc' = "idle"
                 /\ sbx_result'.blocked
                 /\ ~sbx_result'.success
                 /\ children' = 0
            ELSE sbx_pc' = "spawn"]_vars

\* A pip install followed by rm -rf is being executed.
C26_Witness ==
    /\ sbx_pc = "child"
    /\ ShellCall(CPipRm)
    /\ children = 1

C28_RunNeverRaises == sbx_pc # "raised"

\* h is an initial part of g.
IsPrefix(h, g) == Len(h) <= Len(g) /\ SubSeq(g, 1, Len(h)) = h

\* C29 as stated: whatever public operation is called, every entry of the
\* execution history stays where it is and as it is.
C29_HistoryAppendOnly ==
    [][IsPrefix(execution_history, execution_history')]_vars

\* C29 as amended: every operation other than clear_history leaves every
\* entry of the execution history where it is and as it is; clear_history
\* removes them all.
C29_AppendOnlyButClear ==
    [][\/ IsPrefix(execution_history, execution_history')
       \/ /\ execution_history' = <<>>
          /\ sbx_pc = "idle"
          /\ UNCHANGED <<sbx_pc, sbx_call, sbx_result, runs>>]_vars

\* A second entry has been appended behind the first.
C29_Witness ==
    /\ Len(execution_history) = 2
    /\ execution_history[1][1] = "bash"
    /\ execution_history[2][1] = "python"

\* C31: reflect is equivalent to the plan mutators.  Whenever a handler call
\* ends in run_loop and reflect(step, result, success) has run, the steps the
\* plan had before are what mark_step_done(step.id, result) makes of them
\* if success, and what mark_step_failed(step.id, result) makes of them if
\* not (status, attempts, error and result of every step).
C31_ReflectIsMarkStep ==
    [][(pc = "exec" /\ pc' = "loop") =>
        LET result == StepResult(last_outcome')
            id == steps[cur].id
        IN  SubSeq(steps', 1, Len(steps)) =
                IF StepSuccess(last_outcome')
                THEN mark_step_done(steps, id, result)
                ELSE mark_step_failed(steps, id, result)]_vars

\* A step has failed once, with the error kept, and then succeeded.
C31_Witness ==
    /\ pc = "loop"
    /\ \E i \in Indices(steps) :
          /\ steps[i].status = "completed"
          /\ steps[i].attempts = 1
          /\ steps[i].error # ""
          /\ steps[i].result # ""

\* The key execute_step has looked up is the one the rule of the claim gives:
\* the lower-cased agent type if it is a key, else the first key that starts
\* with the first three characters of it, else 'coder'.
ResolvedByRule ==
    LET want == Lower(steps[cur].agent_type)
        P == {k \in 1..Len(agents) : startswith(agents[k], Truncate(want, PrefixLen))}
    IN  /\ Registered(want, agents) => agent_key = want
        /\ (~Registered(want, agents) /\ P # {}) =>
              /\ agent_key = agents[Min(P)]
        /\ (~Registered(want, agents) /\ P = {}) => agent_key = "coder"

\* A step has been handed to execute_step and its handler looked up.
Resolving == cur # 0 /\ pc \in {"exec", "raised"}

\* C32 as stated: for every agent type and every registry, execute_step uses
\* the key the rule gives, and the lookup of the handler never fails.
C32_AlwaysResolves ==
    Resolving => (ResolvedByRule /\ Registered(agent_key, agents) /\ pc = "exec")

\* C32 amended: for every agent type and every registry, execute_step looks
\* up the key the rule gives; the lookup succeeds whenever the registry has
\* the key 'coder' (or a key that matches), and fails, ending run_loop with
\* KeyError, exactly when nothing matches and 'coder' is not registered.
C32_ResolvesWhereCoderRegistered ==
    Resolving =>
        /\ ResolvedByRule
        /\ pc = "exec" <=> Registered(agent_key, agents)
        /\ Registered("coder", agents) => pc = "exec"
        /\ pc = "raised" =>
              /\ agent_key = "coder"
              /\ ~Registered("coder", agents)

\* A step whose agent type is no key is being run by the handler of the
\* first key with its three-character prefix, which is not 'coder'.
C32_Witness ==
    /\ pc = "exec"
    /\ cur # 0
    /\ ~Registered(Lower(steps[cur].agent_type), agents)
    /\ agent_key # "coder"
    /\ Registered(agent_key, agents)
    /\ Registered("coder", agents)

\* The ids, as printed, of the completed steps among the declared
\* dependencies of the step being executed, and of the completed steps with
\* a smaller id.
CompletedDeps ==
    {Str(steps[j].id) : j \in {i \in Indices(steps) :
        /\ steps[i].status = "completed"
        /\ Str(steps[i].id) \in steps[cur].dependencies}}

CompletedEarlier ==
    {Str(steps[j].id) : j \in {i \in Indices(steps) :
        /\ steps[i].status = "completed"
        /\ steps[i].id < steps[cur].id}}

\* C33 as stated: the prior results handed to a step are results of completed
\* steps it declares as dependencies, and of no other step.
C33_OnlyDeclaredDependencies ==
    (pc = "exec" /\ cur # 0) => DOMAIN required_infos \subseteq CompletedDeps

\* C33 amended: the prior results handed to a step are results of completed
\* steps only; they are those of its completed declared dependencies if it
\* has any, and otherwise those of every completed step with a smaller id,
\* whether it depends on them or not; each is cut to its first 500 (300)
\* characters.
C33_DeclaredElseEarlier ==
    (pc = "exec" /\ cur # 0) =>
        /\ DOMAIN required_infos =
              IF CompletedDeps # {} THEN CompletedDeps ELSE CompletedEarlier
        /\ \A k \in DOMAIN required_infos :
              \E i \in Indices(steps) :
                  /\ Str(steps[i].id) = k
                  /\ steps[i].status = "completed"
                  /\ required_infos[k] =
                        Truncate(steps[i].result,
                                 IF CompletedDeps # {} THEN DepResultCap
                                 ELSE PrevResultCap)

\* A step is being executed with the result of the completed step it depends
\* on, while it has a second dependency that is not completed.
C33_Witness ==
    /\ pc = "exec"
    /\ cur # 0
    /\ DOMAIN required_infos # {}
    /\ DOMAIN required_infos \subseteq steps[cur].dependencies
    /\ DOMAIN required_infos # steps[cur].dependencies

\* C34: a security rejection is final within the sandbox.  Every result with
\* blocked = true, the one just returned and every one in the history, has
\* success = false, timed_out = false and execution_time 0; the call that
\* returned it has written no temp file, spawned no child and attempted no
\* install, and it is over: nothing is run or installed after the rejection.
C34_RejectionIsFinal ==
    /\ \A k \in 1..Len(execution_history) :
          LET r == execution_history[k][2]
          IN  r.blocked => /\ ~r.success
                           /\ ~r.timed_out
                           /\ r.execution_time = 0
                           /\ r.blocked_reason # ""
    /\ sbx_result.blocked =>
          /\ ~sbx_result.success
          /\ ~sbx_result.timed_out
          /\ sbx_result.execution_time = 0
          /\ sbx_pc = "idle"
          /\ sbx_call = NoCall
          /\ files_written = 0
          /\ children = 0
          /\ pip_installs = 0
          /\ temp_files = 0

\* A shell command has been rejected by the denylist of validate_bash.
C34_Witness ==
    /\ sbx_result.blocked
    /\ sbx_result.language = "bash"
    /\ Len(execution_history) = 1
    /\ execution_history[1][2].blocked

\* C35: after any sequence of runs, get_stats is consistent with the
\* history: total_executions is its length, successful + failed is the total,
\* no recorded result is both blocked and timed out, every blocked or timed
\* out result is one that did not succeed, and so blocked + timed_out <= failed.
C35_StatsConsistent ==
    LET s == get_stats(execution_history)
    IN  /\ s.total_executions = Len(execution_history)
        /\ s.successful + s.failed = s.total_executions
        /\ s.blocked + s.timed_out <= s.failed
        /\ \A k \in 1..Len(execution_history) :
              LET r == execution_history[k][2]
              IN  /\ ~(r.blocked /\ r.timed_out)
                  /\ (r.blocked \/ r.timed_out) => ~r.success

\* The history holds a refused system install, which counts as successful,
\* and a rejected snippet: one successful, one failed, one blocked.
C35_Witness ==
    LET s == get_stats(execution_history)
    IN  /\ s.total_executions = 2
        /\ s.successful = 1
        /\ s.blocked = 1
        /\ s.failed = 1
        /\ \E k \in 1..2 : execution_history[k][2] = SystemInstallResult(CAptNmap)

\* C36: when run_loop returns the plan is complete: every step is completed
\* or failed, none pending or running, so the execution summary has
\* skipped = 0 and completed + failed = total_steps; and the loop is never
\* left by the iteration cap while the plan is incomplete.
C36_ReturnsComplete ==
    /\ pc = "done" =>
          LET s == get_execution_summary(steps)
          IN  /\ is_complete(steps)
              /\ \A i \in Indices(steps) : steps[i].status \notin {"pending", "running"}
              /\ s.skipped = 0
              /\ s.completed + s.failed = s.total_steps
              /\ summary = <<s.completed, s.total_steps>>
    /\ (pc = "loop" /\ ~is_complete(steps)) => iteration < max_iterations

\* run_loop has returned after a step used up its three attempts and the
\* step that needs it was failed by the deadlock branch.
C36_Witness ==
    /\ pc = "done"
    /\ Len(steps) = 2
    /\ steps[1].attempts = DefaultMaxAttempts
    /\ steps[2].error = DeadlockError
    /\ get_execution_summary(steps).failed = 2

\* The handler call that ended last was for a step that has had a call
\* before, and the call before it was for another step.
Interleaved(tr) ==
    /\ Len(tr) >= 2
    /\ tr[Len(tr) - 1][1] # tr[Len(tr)][1]
    /\ \E a \in 1..(Len(tr) - 1) : tr[a][1] = tr[Len(tr)][1]

\* C37: retries are immediate.  When run_loop starts a step after a handler
\* call that failed and left its step pending, the step started is that same
\* step; and the handler calls for one step are never interleaved with calls
\* for another step.
C37_RetriesImmediate ==
    [][/\ (pc = "loop" /\ pc' = "exec" /\ trace # <<>>) =>
            LET last == trace[Len(trace)]
                i == StepById(steps, last[1])
            IN  (~last[2] /\ steps[i].status = "pending") => cur' = i
       /\ (pc = "loop" /\ trace # <<>>
              /\ ~trace[Len(trace)][2]
              /\ steps[StepById(steps, trace[Len(trace)][1])].status = "pending") =>
            pc' = "exec"
       /\ ~Interleaved(trace')]_vars

\* The second of two steps that do not depend on each other is run after
\* the first one failed twice and then succeeded, the second step waiting.
C37_Witness ==
    /\ Len(trace) = 4
    /\ trace[1] = <<1, FALSE>>
    /\ trace[2] = <<1, FALSE>>
    /\ trace[3] = <<1, TRUE>>
    /\ trace[4][1] = 2
    /\ steps[2].dependencies = {}

\* A call of Sandbox.run ends in this step, by its return or by an exception.
CallReturns == sbx_pc \in {"called", "spawn", "child"} /\ sbx_pc' = "idle"

CallRaises == sbx_pc \in {"called", "spawn", "child"} /\ sbx_pc' = "raised"

\* C38 as stated: every call of Sandbox.run, whatever its language argument,
\* has appended exactly one pair to the execution history when it returns.
C38_EveryCallRecorded ==
    [][CallReturns => Len(execution_history') = Len(execution_history) + 1]_vars

\* C38 amended: every call of Sandbox.run that returns for a language with a
\* runner appends exactly one pair, the runner's language and the result
\* returned; a call for an unsupported language returns its result and
\* appends nothing, as does a call that is left by an exception; and the
\* history is not touched while a call is in progress.
C38_SupportedCallsRecorded ==
    [][/\ (CallReturns /\ HasRunner(sbx_call.language)) =>
             execution_history' =
                 Append(execution_history,
                        <<lang_map(LangNorm(sbx_call.language)), sbx_result'>>)
       /\ (CallReturns /\ ~HasRunner(sbx_call.language)) =>
             /\ execution_history' = execution_history
             /\ sbx_result' = UnsupportedResult(LangNorm(sbx_call.language))
       /\ CallRaises => execution_history' = execution_history
       /\ (sbx_pc # "idle" /\ ~CallReturns) =>
             execution_history' = execution_history]_vars

\* Two calls have returned, the second for an unsupported language, and the
\* history holds the one entry of the first.
C38_Witness ==
    /\ runs = 2
    /\ sbx_pc = "idle"
    /\ sbx_result = UnsupportedResult("ruby")
    /\ Len(execution_history) = 1

\* C39 as stated: when a call of Sandbox.run is over, by its return or by an
\* exception, no temp source file of the call remains in the workspace; and
\* at most one is there at any time, the first being removed before the
\* snippet is run again after an install.
C39_TempFileRemoved ==
    /\ sbx_pc \in {"idle", "raised"} => temp_files = 0
    /\ temp_files <= 1
    /\ sbx_pc = "spawn" => temp_files = 0

\* The requests whose run_loop is executing.
RunningRuns == {q \in 1..MaxQueries : run_pc[q] = "running"}

\* C40 as stated: under every interleaving of /query and /stop requests at
\* most one run_loop is executing on the orchestrator, and the plan the
\* orchestrator holds while a run_loop is executing is the plan of that run.
C40_PlanOwnedBySingleRun ==
    /\ Cardinality(RunningRuns) <= 1
    /\ \A q \in RunningRuns : self_plan = q
====
